---- MODULE Spec2Model ----
(***************************************************************************)
(* Modbus/TCP slave simulator: Slave lifecycle (slave.go), the scenario    *)
(* ticker, the mbserver register memory a client reads and writes, and the *)
(* Engine (supervisor) that starts and stops the fleet.                    *)
(***************************************************************************)
EXTENDS Integers, Sequences, FiniteSets, TLC

\* ---------------------------------------------------------------- bounds
\* direct callers of Slave.Start / Slave.Stop (test goroutines)
NCallers == 2
\* successful starts explored per Slave object (one ticker goroutine each)
MaxStarts == 2
\* bind IPs of the fleet (config.Slaves.Count)
NSlaves == 2
\* Engine.Start calls explored (each creates NSlaves fresh Slave objects)
MaxRuns == 2
\* largest fleet (config.Slaves.Count) of the semaphore model
FleetSize == 101
\* points per address space of the RegisterMap the requests go to
SpaceSize == 2
\* requests handled by the RequestHandler / calls made on the RegisterMap
MaxRequests == 2
\* ticks followed per slave
MaxTicks == 3
\* times the clock advances
MaxAdvances == 2
\* goroutines calling SetScaledValue concurrently
NSetters == 2
\* host bits of the largest CIDR block expanded (a /29 has 3)
MaxHostBits == 3
\* addresses one Start-End expansion is followed for
MaxExpand == 8
\* longest coil sequence packed
MaxCoils == 9
\* request handler goroutines that record concurrently
NHandlers == 2
\* largest slave index of Engine.Start's loop (config.Slaves.Count - 1)
MaxSlaveIndex == 260

\* ------------------------------------------------------ program constants
\* make(chan struct{}, 100)
SemaphoreCap == 100
\* holdingIndex: 40001 -> 0
HoldingBase == 40001
\* NewSlave: UnitID: 1
DefaultUnitID == 1

SlaveStateStopped == "stopped"
SlaveStateStarting == "starting"
SlaveStateRunning == "running"
SlaveStateStopping == "stopping"

EngineStateStopped == "stopped"
EngineStateStarting == "starting"
EngineStateRunning == "running"
EngineStateStopping == "stopping"

ScenarioNormal == "normal"
ScenarioVoltageSag == "voltage_sag"

\* ------------------------------------------------------------- universes
\* Slave objects: object (r-1)*NSlaves + i is the one Engine.Start number r
\* creates for bind IP i; the objects of run 1 are also the ones the direct
\* callers use.
Slaves == 1..(NSlaves * MaxRuns)
IPs == 1..NSlaves
IPOf(s) == ((s - 1) % NSlaves) + 1
RunOf(s) == ((s - 1) \div NSlaves) + 1
Obj(r, i) == (r - 1) * NSlaves + i
\* the Slave object the integration test creates with NewSlave
TestSlaves == {1}
Gens == 1..MaxStarts
Runs == 1..MaxRuns
\* scenarios a caller applies with Engine.ApplyScenario
AppliedScenarios == {ScenarioNormal, ScenarioVoltageSag}

Callers == {<<"caller", c>> : c \in 1..NCallers}
StartGos == {<<"start", i>> : i \in IPs}
StopGos == {<<"stop", s>> : s \in Slaves}
Threads == Callers \cup StartGos \cup StopGos

\* wire offsets modelled: 0 = LineVoltage (40001), 100 = an undefined point
HoldingOffsets == {0, 100}
CoilOffsets == {0}
\* raw LineVoltage values a Normal tick may write (220 V x (1 +- 0.005) x 10)
VoltageRaws == {2190, 2210}
\* values a client writes with FC 06
ClientVals == {1, 4660}
\* holding offsets the client addresses
ClientOffsets == {100}

VARIABLES
    state,        \* Slave.state
    registers,    \* Slave.registers (RegisterMap)
    server,       \* Slave.server (mbserver.Server memory)
    listening,    \* the server's listener is open
    scenarioCtx,  \* Slave.scenarioCtx / scenarioStop: id of the context, 0 = nil
    cancelled,    \* contexts of the slave whose cancel func has run
    tickerPc,     \* runScenarioUpdater goroutines of the slave, by spawn number
    tickerC,      \* ticker.C of each goroutine holds a tick
    nStarts,      \* goroutines spawned so far for the slave
    pc, target, ret, lastOp,   \* threads: position, receiver, result, method
    resp,         \* last response the client got
    lastWrite,    \* last value the client wrote to the server (-1 = none)
    engineState, slaves, enginePc, engineRet, errChan, run, stopCtxDone,
    semPhase, semN, semWaiting, semInFlight, semDone,
    engineStats,      \* Engine.stats (SlaveCount, ActiveSlaves)
    startCtxDone,     \* the ctx passed to Engine.Start number r is cancelled
    currentScenario,  \* Engine.currentScenario
    scenario,         \* Slave.scenario
    applyPc, applyArg, applySnap,   \* a caller inside Engine.ApplyScenario
    hrm,              \* the RegisterMap of the slave a RequestHandler serves
    hstats,           \* that slave's SlaveStats counters
    hresp,            \* the last request and what the handler returned
    mresp,            \* the last direct RegisterMap call and its result
    packetLossRate,   \* RequestHandler.packetLossRate, in percent
    clock,            \* time.Now() in seconds, and how often it has advanced
    scenarioHandlers, \* the process-wide registry of scenario handlers
    points,           \* Slave.registers: the scaled points a tick writes
    memory,           \* Slave.server.HoldingRegisters of the same points
    tick,             \* the slave's goroutine inside updateByScenario
    seen,             \* what the last client read during a tick returned
    sagCall,          \* last direct call on a VoltageSagScenario, its window
    rmMu,             \* RegisterMap.mu: the writer holding it, the readers
    words,            \* holdingRegisters[idx], [idx+1] of a Uint32 point
    setPc, setVal,    \* goroutines inside SetScaledValue, the value they set
    written,          \* values SetScaledValue calls have stored so far
    readPc, readBuf,  \* a goroutine inside ReadHoldingRegisters, its result
    unitAssign,       \* unit id Engine.Start computed for a slave index
    rtrip,            \* the last write-then-read made on the RegisterMap
    ipx,              \* a call of IPRange.Expand: its loop variable and result
    pack,             \* coils given to CoilsToByte, its bytes, ByteToCoils' result
    stat,             \* SlaveStats of the fleet, goroutines in recordRequest / Stats
    jit               \* RequestHandler jitter knobs, the last delay applyJitter drew

slaveVars == <<state, registers, server, listening, scenarioCtx, cancelled,
               tickerPc, tickerC, nStarts>>
threadVars == <<pc, target, ret, lastOp>>
clientVars == <<resp, lastWrite>>
engineVars == <<engineState, slaves, enginePc, engineRet, errChan, run,
                stopCtxDone>>
semVars == <<semPhase, semN, semWaiting, semInFlight, semDone>>
fleetVars == <<engineStats, startCtxDone, currentScenario, scenario, applyPc,
               applyArg, applySnap>>
handlerVars == <<hrm, hstats, hresp, mresp, packetLossRate>>
tickVars == <<clock, scenarioHandlers, points, memory, tick, seen, sagCall>>
lockVars == <<rmMu, words, setPc, setVal, written, readPc, readBuf>>
utilVars == <<ipx, pack, stat, jit>>
vars == <<slaveVars, threadVars, clientVars, engineVars, semVars, fleetVars,
          handlerVars, tickVars, lockVars, unitAssign, rtrip, utilVars>>
pointVars == <<tickVars, lockVars, unitAssign, rtrip, utilVars>>

\* ------------------------------------------------------------ RegisterMap
\* DefaultRegisterMap: 10000 zeroed points per space, 40001 = 220.0 V x 10
DefaultRegisterMap ==
    [holdingRegisters |-> [a \in HoldingOffsets |-> IF a = 0 THEN 2200 ELSE 0],
     coils |-> [a \in CoilOffsets |-> FALSE]]

NilServer ==
    [exists |-> FALSE,
     HoldingRegisters |-> [a \in HoldingOffsets |-> 0],
     Coils |-> [a \in CoilOffsets |-> FALSE]]

\* syncRegistersToServer: replaces the server's memory by a copy of the map
syncRegistersToServer(srv, rm) ==
    IF ~srv.exists THEN srv
    ELSE [exists |-> TRUE,
          HoldingRegisters |-> rm.holdingRegisters,
          Coils |-> rm.coils]

NoOp == "none"
NoRet == "none"
RetPc(t) == IF t[1] = "caller" THEN "idle" ELSE "returned"

\* ------------------------------------------------- RegisterMap operations
Offsets == 0..(SpaceSize - 1)
\* the value a request writes to a holding register
WriteVals == {7}

\* NewRegisterMap(n, n, n, n), DefineRegister(40001, "LineVoltage", ...,
\* writable = false) and SetScaledValue(40001, 220.0)
HandlerRegisterMap ==
    [coils |-> [a \in Offsets |-> FALSE],
     discreteInputs |-> [a \in Offsets |-> FALSE],
     inputRegisters |-> [a \in Offsets |-> 0],
     holdingRegisters |-> [a \in Offsets |-> IF a = 0 THEN 2200 ELSE 0],
     definitions |-> [a \in {HoldingBase} |-> [Writable |-> FALSE]]]

\* meta, ok := rm.definitions[address]
GetDefinition(m, address) ==
    IF address \in DOMAIN m.definitions
    THEN [ok |-> TRUE, Writable |-> m.definitions[address].Writable]
    ELSE [ok |-> FALSE, Writable |-> FALSE]

\* 40001 -> 0, 40002 -> 1, ...; smaller addresses are used as they are
holdingIndexRaw(address) == address
holdingIndex(address) ==
    IF address >= HoldingBase THEN address - HoldingBase ELSE address

\* result of a RegisterMap call: the map after it, the error, the data read
MapErr(m) == [rm |-> m, err |-> TRUE, data |-> <<>>]
MapOk(m, d) == [rm |-> m, err |-> FALSE, data |-> d]

\* result[i] = space[start + i]
Slice(space, start, n) == [i \in 1..n |-> space[start + i - 1]]
\* copy(space[start:end], values)
CopyFirst(space, start, values) ==
    [a \in DOMAIN space |->
        IF a = start /\ Len(values) > 0 THEN values[1] ELSE space[a]]
Copy(space, start, values) ==
    [a \in DOMAIN space |->
        IF a >= start /\ a < start + Len(values)
        THEN values[a - start + 1] ELSE space[a]]

ReadCoil(m, address) ==
    IF address >= SpaceSize THEN MapErr(m)
    ELSE MapOk(m, <<m.coils[address]>>)
ReadCoils(m, address, quantity) ==
    IF address + quantity > SpaceSize THEN MapErr(m)
    ELSE MapOk(m, Slice(m.coils, address, quantity))
WriteCoil(m, address, value) ==
    IF address >= SpaceSize THEN MapErr(m)
    ELSE MapOk([m EXCEPT !.coils[address] = value], <<>>)
WriteCoils(m, address, values) ==
    IF address + Len(values) > SpaceSize THEN MapErr(m)
    ELSE MapOk([m EXCEPT !.coils = Copy(m.coils, address, values)], <<>>)

ReadDiscreteInput(m, address) ==
    IF address >= SpaceSize THEN MapErr(m)
    ELSE MapOk(m, <<m.discreteInputs[address]>>)
ReadDiscreteInputs(m, address, quantity) ==
    IF address + quantity > SpaceSize THEN MapErr(m)
    ELSE MapOk(m, Slice(m.discreteInputs, address, quantity))

ReadInputRegister(m, address) ==
    IF address >= SpaceSize THEN MapErr(m)
    ELSE MapOk(m, <<m.inputRegisters[address]>>)
ReadInputRegisters(m, address, quantity) ==
    IF address + quantity > SpaceSize THEN MapErr(m)
    ELSE MapOk(m, Slice(m.inputRegisters, address, quantity))

ReadHoldingRegister(m, address) ==
    LET idx == holdingIndex(address) IN
    IF idx < 0 \/ idx >= SpaceSize THEN MapErr(m)
    ELSE MapOk(m, <<m.holdingRegisters[idx]>>)
ReadHoldingRegisters(m, address, quantity) ==
    LET startIdx == holdingIndex(address)
        endIdx == startIdx + quantity IN
    IF startIdx < 0 \/ endIdx > SpaceSize THEN MapErr(m)
    ELSE MapOk(m, Slice(m.holdingRegisters, startIdx, quantity))
WriteHoldingRegisterAll(m, address, value) ==
    MapOk([m EXCEPT !.holdingRegisters = [a \in DOMAIN @ |-> value]], <<>>)
WriteHoldingRegister(m, address, value) ==
    LET idx == holdingIndex(address) IN
    IF idx < 0 \/ idx >= SpaceSize THEN MapErr(m)
    ELSE MapOk([m EXCEPT !.holdingRegisters[idx] = value], <<>>)
WriteHoldingRegisters(m, address, values) ==
    LET startIdx == holdingIndex(address)
        endIdx == startIdx + Len(values) IN
    IF startIdx < 0 \/ endIdx > SpaceSize THEN MapErr(m)
    ELSE MapOk([m EXCEPT !.holdingRegisters =
                    Copy(m.holdingRegisters, startIdx, values)], <<>>)

\* Slave.stats of a new slave
NewSlaveStats ==
    [RequestCount |-> 0, ErrorCount |-> 0, BytesReceived |-> 0, BytesSent |-> 0]

\* no request handled yet
NoRequest ==
    [n |-> 0, unit |-> 0, fc |-> 0, addr |-> 0, qty |-> 0, rate |-> 0, u |-> 0,
     val |-> 0, hasData |-> FALSE, data |-> <<>>, err |-> "nil", code |-> 0,
     afterDrop |-> FALSE]
NoCall == [n |-> 0, op |-> "none", space |-> "none", addr |-> 0, qty |-> 0,
           err |-> FALSE]

\* NewRequestHandler(slave, logger) on a new slave
HandlerInit ==
    /\ hrm = HandlerRegisterMap
    /\ hstats = NewSlaveStats
    /\ hresp = NoRequest
    /\ mresp = NoCall
    /\ packetLossRate = 0

\* ------------------------------------------------------ scenario handlers
\* Times are in seconds, energy in Wh, factors in 1/1000, loss rates in
\* percent, jitter delays in milliseconds; register values are the raw words
\* (scaled value x Scale, truncated as uint16(...) / uint32(...) truncate).
ScenarioJitter == "jitter"
ScenarioPacketLoss == "packet_loss"
ScenarioTypes ==
    {ScenarioNormal, ScenarioVoltageSag, ScenarioJitter, ScenarioPacketLoss}

\* slaves whose scenario ticks are followed
TickSlaves == TestSlaves
\* how far time.Now() moves between two calls of a handler
AdvanceSteps == {5, 1200}
\* how far it moves between two steps of a slave's ticks
TickAdvanceSteps == {1200}

\* DefaultRegisterMap: SetScaledValue(40001, 220.0), (40004, 0),
\* (40007, 3300.0) with scales 10, 1, 10
BaselinePoints == [voltage |-> 2200, energy |-> 0, power |-> 33000]
\* make([]uint16, len(...)): all words zero
ZeroPoints == [voltage |-> 0, energy |-> 0, power |-> 0]

\* the zero time.Time
ZeroTime == -1
IsZero(t) == t = ZeroTime

\* &NormalScenario{}
NewNormalScenario == [baseVoltage |-> 0, energy |-> 0, lastUpdate |-> ZeroTime]
\* init(): one handler object of every type for the whole process
NewScenarioHandlers ==
    [normal |-> NewNormalScenario,
     voltage_sag |-> [normalScenario |-> NewNormalScenario,
                      startTime |-> ZeroTime, duration |-> 0, sagFactor |-> 0],
     jitter |-> [normalScenario |-> NewNormalScenario,
                 jitterMin |-> 0, jitterMax |-> 0],
     packet_loss |-> [normalScenario |-> NewNormalScenario, lossRate |-> 0]]

\* ScenarioParams{}
NoParams ==
    [Duration |-> 0, VoltageVariance |-> 0, JitterMin |-> 0, JitterMax |-> 0,
     PacketLossRate |-> 0]
\* DefaultConfig().Scenario.Scenarios[name]
ConfigParams(sc) ==
    CASE sc = ScenarioNormal -> [NoParams EXCEPT !.VoltageVariance = 5]
      [] sc = ScenarioVoltageSag ->
            [NoParams EXCEPT !.Duration = 10, !.VoltageVariance = 200]
      [] sc = ScenarioJitter ->
            [NoParams EXCEPT !.JitterMin = 100, !.JitterMax = 500]
      [] sc = ScenarioPacketLoss -> [NoParams EXCEPT !.PacketLossRate = 5]

\* power := voltage * current * 0.95 in watts, for the raw voltage v and the
\* base current 15.5 A
Power(v) == (v * 14725) \div 10000
\* SetScaledValue(40007, power): Scale 10
PowerRaw(v) == (v * 14725) \div 1000
\* SetScaledValue(40004, s.energy): uint32 of the energy in kWh (the energy
\* stays far below 2^32 kWh here, so the conversion only truncates)
EnergyRaw(ns) == ns.energy \div 1000

\* NormalScenario.Update up to s.lastUpdate = time.Now(): the handler after
\* an update at time t that drew the raw voltage v
NormalUpdate(ns, v, t) ==
    LET since == IF ns.baseVoltage = 0 THEN t ELSE ns.lastUpdate IN
    [baseVoltage |-> 220,
     energy |-> ns.energy + (Power(v) * (t - since)) \div 3600,
     lastUpdate |-> t]
\* NormalScenario.Reset
NormalReset(ns, t) == [ns EXCEPT !.energy = 0, !.lastUpdate = t]

\* s.duration = 10 * time.Second
DefaultSagDuration == 10
\* s.sagFactor = 0.8
DefaultSagFactor == 800
SagFactorOf(variance) ==
    LET f == 1000 - variance IN
    IF f <= 0 \/ f >= 1000 THEN DefaultSagFactor ELSE f
\* VoltageSagScenario.Update: if s.startTime.IsZero() { ... }
SagInit(h, p, t) ==
    IF IsZero(h.startTime)
    THEN [h EXCEPT !.startTime = t,
                   !.duration = IF p.Duration = 0 THEN DefaultSagDuration
                                ELSE p.Duration,
                   !.sagFactor = SagFactorOf(p.VoltageVariance)]
    ELSE h
\* time.Since(s.startTime) < s.duration
SagWindowOpenAlways(h, t) == TRUE
SagWindowOpen(h, t) == t - h.startTime < h.duration
\* GetScaledValue, times sagFactor, SetScaledValue
Sagged(raw, f) == (raw * f) \div 1000
\* the block that applies the sag to points 40001 and 40007
SagApply(h, pts, t) ==
    IF SagWindowOpen(h, t)
    THEN [pts EXCEPT !.voltage = Sagged(@, h.sagFactor),
                     !.power = Sagged(@, h.sagFactor)]
    ELSE pts

\* the NormalScenario a handler updates: itself or its embedded one
NormalOf(H, sc) ==
    IF sc = ScenarioNormal THEN H.normal ELSE H[sc].normalScenario
\* handler.Update up to the first register write: the registry after the
\* handler of sc was updated at time t with params p and drew voltage v
UpdateHead(H, sc, p, v, t) ==
    CASE sc = ScenarioNormal -> [H EXCEPT !.normal = NormalUpdate(@, v, t)]
      [] sc = ScenarioVoltageSag ->
            [H EXCEPT !.voltage_sag =
                [SagInit(@, p, t) EXCEPT !.normalScenario = NormalUpdate(@, v, t)]]
      [] sc = ScenarioJitter ->
            [H EXCEPT !.jitter =
                [normalScenario |-> NormalUpdate(@.normalScenario, v, t),
                 jitterMin |-> IF p.JitterMin = 0 THEN 100 ELSE p.JitterMin,
                 jitterMax |-> IF p.JitterMax = 0 THEN 500 ELSE p.JitterMax]]
      [] sc = ScenarioPacketLoss ->
            [H EXCEPT !.packet_loss =
                [normalScenario |-> NormalUpdate(@.normalScenario, v, t),
                 lossRate |-> IF p.PacketLossRate = 0 THEN 5
                              ELSE p.PacketLossRate]]

\* no tick goroutine yet, no scenario applied by a caller yet
\* applied: ApplyScenario has returned since the last tick began; first:
\* the tick is the first that began after an ApplyScenario returned; pre:
\* the points when the tick began
NoTick ==
    [pc |-> "none", scn |-> ScenarioNormal, first |-> FALSE,
     applied |-> FALSE, n |-> 0, pre |-> BaselinePoints]
NoRead == [read |-> FALSE, val |-> ZeroPoints]
NoSagCall ==
    [op |-> "none", at |-> 0, start |-> 0, params |-> NoParams, fresh |-> TRUE]

\* the slaves of one process, which share the registry of handlers
ShareSlaves == 1..NSlaves

TickInit ==
    /\ clock = [now |-> 0, n |-> 0]
    /\ scenarioHandlers = NewScenarioHandlers
    /\ points = [s \in ShareSlaves |-> BaselinePoints]
    /\ memory = [s \in ShareSlaves |-> ZeroPoints]
    /\ tick = [s \in ShareSlaves |-> NoTick]
    /\ seen = [s \in ShareSlaves |-> NoRead]
    /\ sagCall = NoSagCall

\* ------------------------------------------- RegisterMap.mu and Uint32 points
\* goroutines calling SetScaledValue on the Uint32 point
Setters == 1..NSetters
\* values they set: 0x00010002 and 0x00030004
U32Vals == {65538, 196612}
\* uint16(u32 >> 16), uint16(u32)
HighWord(u) == (u \div 65536) % 65536
LowWord(u) == u % 65536

\* DefaultRegisterMap: SetScaledValue(40004, 0); nobody holds the lock
LockInit ==
    /\ rmMu = [writer |-> 0, readers |-> 0]
    /\ words = <<HighWord(0), LowWord(0)>>
    /\ setPc = [w \in Setters |-> "idle"]
    /\ setVal = [w \in Setters |-> 0]
    /\ written = {0}
    /\ readPc = "idle"
    /\ readBuf = <<0, 0>>

\* no write-then-read made yet
NoRoundTrip ==
    [n |-> 0, op |-> "none", addr |-> 0, vals |-> <<>>, werr |-> FALSE,
     rerr |-> FALSE, data |-> <<>>]

\* ------------------------------------------------------------- unit ids
\* no unit id computed yet
NoUnit == [start |-> 0, idx |-> 0, unitID |-> 0, done |-> FALSE]

\* ------------------------------------------------------- IPRange.Expand
\* no expansion called yet: ip is the loop variable, ips the result
NoExpand ==
    [op |-> "none", pc |-> "idle", h |-> 0, start |-> <<0, 0, 0, 0>>,
     end |-> <<0, 0, 0, 0>>, ip |-> <<0, 0, 0, 0>>, ips |-> <<>>]

\* nothing packed yet
NoPack == [coils |-> <<>>, bytes |-> <<>>, back |-> <<>>, pc |-> "idle"]

\* ------------------------------------------------ SlaveStats, Engine.Stats
\* Slave objects the Engine.Start calls create; handler goroutines
StatObjs == 1..(NSlaves * MaxRuns)
Handlers == 1..NHandlers
\* a goroutine outside recordRequest
NoRecord ==
    [pc |-> "idle", obj |-> 0, bytesIn |-> 0, bytesOut |-> 0,
     hasError |-> FALSE]
\* stats := e.stats, whose totals nothing ever sets
ZeroTotals ==
    [TotalRequests |-> 0, TotalErrors |-> 0, BytesReceived |-> 0,
     BytesSent |-> 0]
\* no goroutine inside Engine.Stats
NoStatsRead == [pc |-> "idle", todo |-> {}, cur |-> 0, fld |-> 0,
                acc |-> ZeroTotals]
\* NewEngine: no slave, nothing recorded, Stats never called
StatInit ==
    [cnt |-> [o \in StatObjs |-> NewSlaveStats],
     rec |-> [h \in Handlers |-> NoRecord],
     nrec |-> 0, up |-> FALSE, made |-> 0, emap |-> {},
     rd |-> NoStatsRead, prev |-> ZeroTotals, last |-> ZeroTotals,
     nstats |-> 0]

\* NewRequestHandler: jitter disabled, zero range; no delay drawn yet
NoJitter ==
    [jitterEnabled |-> FALSE, jitterMin |-> 0, jitterMax |-> 0,
     applied |-> FALSE, delay |-> 0, panicked |-> FALSE]

UtilInit ==
    /\ ipx = NoExpand
    /\ pack = NoPack
    /\ stat = StatInit
    /\ jit = NoJitter

Init ==
    /\ state = [s \in Slaves |-> SlaveStateStopped]
    /\ registers = [s \in Slaves |-> DefaultRegisterMap]
    /\ server = [s \in Slaves |-> NilServer]
    /\ listening = [s \in Slaves |-> FALSE]
    /\ scenarioCtx = [s \in Slaves |-> 0]
    /\ cancelled = [s \in Slaves |-> {}]
    /\ tickerPc = [s \in Slaves |-> [g \in Gens |-> "none"]]
    /\ tickerC = [s \in Slaves |-> [g \in Gens |-> FALSE]]
    /\ nStarts = [s \in Slaves |-> 0]
    /\ pc = [t \in Threads |-> IF t[1] = "caller" THEN "idle" ELSE "none"]
    /\ target = [t \in Threads |-> 0]
    /\ ret = [t \in Threads |-> NoRet]
    /\ lastOp = [t \in Threads |-> NoOp]
    /\ resp = [fc |-> 0, addr |-> 0, val |-> 0]
    /\ lastWrite = [s \in Slaves |-> [h |-> -1, c |-> -1]]
    /\ engineState = EngineStateStopped
    /\ slaves = [i \in IPs |-> 0]
    /\ enginePc = "idle"
    /\ engineRet = [op |-> NoOp, err |-> 0]
    /\ errChan = <<>>
    /\ run = 0
    /\ stopCtxDone = FALSE
    /\ semPhase = "idle"
    /\ semN = 0
    /\ semWaiting = 0
    /\ semInFlight = 0
    /\ semDone = 0
    /\ engineStats = [SlaveCount |-> 0, ActiveSlaves |-> 0]
    /\ startCtxDone = [r \in Runs |-> FALSE]
    /\ currentScenario = ScenarioNormal
    /\ scenario = [s \in Slaves |-> ScenarioNormal]
    /\ applyPc = "idle"
    /\ applyArg = ScenarioNormal
    /\ applySnap = {}
    /\ HandlerInit
    /\ TickInit
    /\ LockInit
    /\ unitAssign = NoUnit
    /\ rtrip = NoRoundTrip
    /\ UtilInit

\* ------------------------------------------------------------ Slave.Start
\* state.CompareAndSwap(Stopped, Starting)
StartCASGuardAlways(s) == TRUE
StartCASGuard(s) == state[s] = SlaveStateStopped

\* another listener holds ip:port
PortInUse(s) == \E o \in Slaves : o # s /\ IPOf(o) = IPOf(s) /\ listening[o]

\* the failure branch of ListenTCP: state.Store(Stopped), return the error
ListenFailedStateStuck(s) == SlaveStateStarting
ListenFailedState(s) == SlaveStateStopped

SlaveStartCAS(t) ==
    LET s == target[t] IN
    /\ pc[t] = "start_call"
    /\ IF StartCASGuard(s)
       THEN /\ nStarts[s] < MaxStarts
            /\ state' = [state EXCEPT ![s] = SlaveStateStarting]
            /\ pc' = [pc EXCEPT ![t] = "start_listen"]
            /\ ret' = ret
       ELSE /\ pc' = [pc EXCEPT ![t] = RetPc(t)]
            /\ ret' = [ret EXCEPT ![t] = "err_running"]
            /\ state' = state
    /\ UNCHANGED <<registers, server, listening, scenarioCtx, cancelled,
                   tickerPc, tickerC, nStarts, target, lastOp>>
    /\ UNCHANGED <<clientVars, engineVars, semVars, fleetVars, handlerVars, pointVars>>

\* mbserver.NewServer, syncRegistersToServer, server.ListenTCP(addr)
SlaveStartListen(t) ==
    LET s == target[t] IN
    /\ pc[t] = "start_listen"
    /\ server' = [server EXCEPT ![s] =
                    syncRegistersToServer([NilServer EXCEPT !.exists = TRUE],
                                          registers[s])]
    /\ lastWrite' = [lastWrite EXCEPT ![s] = [h |-> -1, c |-> -1]]
    /\ \E ok \in BOOLEAN :
         /\ ok => ~PortInUse(s)
         /\ IF ok
            THEN /\ listening' = [listening EXCEPT ![s] = TRUE]
                 /\ pc' = [pc EXCEPT ![t] = "start_spawn"]
                 /\ UNCHANGED <<state, ret>>
            ELSE /\ state' = [state EXCEPT ![s] = ListenFailedState(s)]
                 /\ ret' = [ret EXCEPT ![t] = "err_listen"]
                 /\ pc' = [pc EXCEPT ![t] = RetPc(t)]
                 /\ UNCHANGED listening
    /\ UNCHANGED <<registers, scenarioCtx, cancelled, tickerPc, tickerC,
                   nStarts, target, lastOp, resp>>
    /\ UNCHANGED <<engineVars, semVars, fleetVars, handlerVars, pointVars>>

\* context.WithCancel, go runScenarioUpdater(), state.Store(Running)
SlaveStartSpawn(t) ==
    LET s == target[t]
        g == nStarts[s] + 1
    IN
    /\ pc[t] = "start_spawn"
    /\ scenarioCtx' = [scenarioCtx EXCEPT ![s] = g]
    /\ nStarts' = [nStarts EXCEPT ![s] = g]
    /\ tickerPc' = [tickerPc EXCEPT ![s][g] = "select"]
    /\ state' = [state EXCEPT ![s] = SlaveStateRunning]
    /\ ret' = [ret EXCEPT ![t] = "nil"]
    /\ pc' = [pc EXCEPT ![t] = RetPc(t)]
    /\ UNCHANGED <<registers, server, listening, cancelled, tickerC,
                   target, lastOp>>
    /\ UNCHANGED <<clientVars, engineVars, semVars, fleetVars, handlerVars, pointVars>>

\* ------------------------------------------------------------- Slave.Stop
\* state.CompareAndSwap(Running, Stopping)
StopCASGuardAlways(s) == TRUE
StopCASGuard(s) == state[s] = SlaveStateRunning

SlaveStopCAS(t) ==
    LET s == target[t] IN
    /\ pc[t] = "stop_call"
    /\ IF StopCASGuard(s)
       THEN /\ state' = [state EXCEPT ![s] = SlaveStateStopping]
            /\ pc' = [pc EXCEPT ![t] = "stop_cancel"]
            /\ ret' = ret
       ELSE /\ pc' = [pc EXCEPT ![t] = RetPc(t)]
            /\ ret' = [ret EXCEPT ![t] = "nil"]
            /\ state' = state
    /\ UNCHANGED <<registers, server, listening, scenarioCtx, cancelled,
                   tickerPc, tickerC, nStarts, target, lastOp>>
    /\ UNCHANGED <<clientVars, engineVars, semVars, fleetVars, handlerVars, pointVars>>

\* s.scenarioStop(); s.server.Close()
SlaveStopCancelClose(t) ==
    LET s == target[t] IN
    /\ pc[t] = "stop_cancel"
    /\ cancelled' = [cancelled EXCEPT ![s] =
                       IF scenarioCtx[s] # 0 THEN @ \cup {scenarioCtx[s]} ELSE @]
    /\ listening' = [listening EXCEPT ![s] = IF server[s].exists THEN FALSE ELSE @]
    /\ pc' = [pc EXCEPT ![t] = "stop_store"]
    /\ UNCHANGED <<state, registers, server, scenarioCtx, tickerPc, tickerC,
                   nStarts, target, ret, lastOp>>
    /\ UNCHANGED <<clientVars, engineVars, semVars, fleetVars, handlerVars, pointVars>>

\* state.Store(Stopped); return nil
SlaveStopStore(t) ==
    LET s == target[t] IN
    /\ pc[t] = "stop_store"
    /\ state' = [state EXCEPT ![s] = SlaveStateStopped]
    /\ ret' = [ret EXCEPT ![t] = "nil"]
    /\ pc' = [pc EXCEPT ![t] = RetPc(t)]
    /\ UNCHANGED <<registers, server, listening, scenarioCtx, cancelled,
                   tickerPc, tickerC, nStarts, target, lastOp>>
    /\ UNCHANGED <<clientVars, engineVars, semVars, fleetVars, handlerVars, pointVars>>

\* ------------------------------------------------------ direct callers
\* a test goroutine calls slave.Start(ctx) or slave.Stop(ctx)
CallerCall(t) ==
    /\ pc[t] = "idle"
    /\ \E s \in TestSlaves, op \in {"Start", "Stop"} :
         /\ target' = [target EXCEPT ![t] = s]
         /\ lastOp' = [lastOp EXCEPT ![t] = op]
         /\ pc' = [pc EXCEPT ![t] = IF op = "Start" THEN "start_call" ELSE "stop_call"]
         /\ ret' = [ret EXCEPT ![t] = NoRet]
    /\ UNCHANGED <<slaveVars, clientVars, engineVars, semVars, fleetVars, handlerVars, pointVars>>

\* ------------------------------------------------- runScenarioUpdater
\* scenarioCtx is done: scenarioStop() ran, or the parent ctx is cancelled
CtxDone(s) == scenarioCtx[s] \in cancelled[s] \/ startCtxDone[RunOf(s)]

\* the runtime timer puts a tick into ticker.C (capacity 1)
TickerFire(s, g) ==
    /\ tickerPc[s][g] \in {"select", "update", "sync"}
    /\ ~tickerC[s][g]
    /\ tickerC' = [tickerC EXCEPT ![s][g] = TRUE]
    /\ UNCHANGED <<state, registers, server, listening, scenarioCtx, cancelled,
                   tickerPc, nStarts>>
    /\ UNCHANGED <<threadVars, clientVars, engineVars, semVars, fleetVars, handlerVars, pointVars>>

\* select: case <-ticker.C
TickSelectTick(s, g) ==
    /\ tickerPc[s][g] = "select"
    /\ tickerC[s][g]
    /\ tickerC' = [tickerC EXCEPT ![s][g] = FALSE]
    /\ tickerPc' = [tickerPc EXCEPT ![s][g] = "update"]
    /\ UNCHANGED <<state, registers, server, listening, scenarioCtx, cancelled,
                   nStarts>>
    /\ UNCHANGED <<threadVars, clientVars, engineVars, semVars, fleetVars, handlerVars, pointVars>>

\* select: case <-s.scenarioCtx.Done(): return (defer ticker.Stop())
TickSelectDone(s, g) ==
    /\ tickerPc[s][g] = "select"
    /\ CtxDone(s)
    /\ tickerPc' = [tickerPc EXCEPT ![s][g] = "done"]
    /\ tickerC' = [tickerC EXCEPT ![s][g] = FALSE]
    /\ UNCHANGED <<state, registers, server, listening, scenarioCtx, cancelled,
                   nStarts>>
    /\ UNCHANGED <<threadVars, clientVars, engineVars, semVars, fleetVars, handlerVars, pointVars>>

\* updateByScenario: handler.Update(s.registers, params) writes 40001..40007
TickUpdate(s, g) ==
    /\ tickerPc[s][g] = "update"
    /\ \E v \in VoltageRaws :
         registers' = [registers EXCEPT ![s].holdingRegisters[0] = v]
    /\ tickerPc' = [tickerPc EXCEPT ![s][g] = "sync"]
    /\ UNCHANGED <<state, server, listening, scenarioCtx, cancelled, tickerC,
                   nStarts>>
    /\ UNCHANGED <<threadVars, clientVars, engineVars, semVars, fleetVars, handlerVars, pointVars>>

\* updateByScenario: s.mu.Lock(); s.syncRegistersToServer(); s.mu.Unlock()
TickSync(s, g) ==
    /\ tickerPc[s][g] = "sync"
    /\ server' = [server EXCEPT ![s] = syncRegistersToServer(@, registers[s])]
    /\ tickerPc' = [tickerPc EXCEPT ![s][g] = "select"]
    /\ UNCHANGED <<state, registers, listening, scenarioCtx, cancelled, tickerC,
                   nStarts>>
    /\ UNCHANGED <<threadVars, clientVars, engineVars, semVars, fleetVars, handlerVars, pointVars>>

\* ------------------------------------------------ client over mbserver
\* FC 06: the server stores the value in its HoldingRegisters and echoes
ClientWriteSingleRegister(s, a, v) ==
    /\ listening[s]
    /\ server' = [server EXCEPT ![s].HoldingRegisters[a] = v]
    /\ lastWrite' = [lastWrite EXCEPT ![s].h = v]
    /\ resp' = [fc |-> 6, addr |-> a, val |-> v]
    /\ UNCHANGED <<state, registers, listening, scenarioCtx, cancelled,
                   tickerPc, tickerC, nStarts>>
    /\ UNCHANGED <<threadVars, engineVars, semVars, fleetVars, handlerVars, pointVars>>

\* FC 03: the server answers from its HoldingRegisters
ClientReadHoldingRegisters(s, a) ==
    /\ listening[s]
    /\ resp' = [fc |-> 3, addr |-> a, val |-> server[s].HoldingRegisters[a]]
    /\ UNCHANGED <<slaveVars, threadVars, lastWrite, engineVars, semVars, fleetVars, handlerVars, pointVars>>

\* FC 05: 0xFF00 = on, 0x0000 = off
ClientWriteSingleCoil(s, a, b) ==
    /\ listening[s]
    /\ server' = [server EXCEPT ![s].Coils[a] = b]
    /\ lastWrite' = [lastWrite EXCEPT ![s].c = IF b THEN 1 ELSE 0]
    /\ resp' = [fc |-> 5, addr |-> a, val |-> IF b THEN 1 ELSE 0]
    /\ UNCHANGED <<state, registers, listening, scenarioCtx, cancelled,
                   tickerPc, tickerC, nStarts>>
    /\ UNCHANGED <<threadVars, engineVars, semVars, fleetVars, handlerVars, pointVars>>

\* FC 01: one coil, bit 0 of the data byte
ClientReadCoils(s, a) ==
    /\ listening[s]
    /\ resp' = [fc |-> 1, addr |-> a, val |-> IF server[s].Coils[a] THEN 1 ELSE 0]
    /\ UNCHANGED <<slaveVars, threadVars, lastWrite, engineVars, semVars, fleetVars, handlerVars, pointVars>>

\* --------------------------------------- one slave, concurrent callers
SlaveNext ==
    \/ \E t \in Callers : CallerCall(t)
    \/ \E t \in Callers : SlaveStartCAS(t)
    \/ \E t \in Callers : SlaveStartListen(t)
    \/ \E t \in Callers : SlaveStartSpawn(t)
    \/ \E t \in Callers : SlaveStopCAS(t)
    \/ \E t \in Callers : SlaveStopCancelClose(t)
    \/ \E t \in Callers : SlaveStopStore(t)
    \/ \E s \in TestSlaves, g \in Gens : TickerFire(s, g)
    \/ \E s \in TestSlaves, g \in Gens : TickSelectTick(s, g)
    \/ \E s \in TestSlaves, g \in Gens : TickSelectDone(s, g)
    \/ \E s \in TestSlaves, g \in Gens : TickUpdate(s, g)
    \/ \E s \in TestSlaves, g \in Gens : TickSync(s, g)

SpecSlave == Init /\ [][SlaveNext]_vars

\* ------------------------- one slave, the test goroutine and its client
\* TestSlaveIntegration: one goroutine starts and stops the slave
TestCallers == {<<"caller", 1>>}

ClientNext ==
    \/ \E t \in TestCallers : CallerCall(t)
    \/ \E t \in TestCallers : SlaveStartCAS(t)
    \/ \E t \in TestCallers : SlaveStartListen(t)
    \/ \E t \in TestCallers : SlaveStartSpawn(t)
    \/ \E t \in TestCallers : SlaveStopCAS(t)
    \/ \E t \in TestCallers : SlaveStopCancelClose(t)
    \/ \E t \in TestCallers : SlaveStopStore(t)
    \/ \E s \in TestSlaves, g \in Gens : TickerFire(s, g)
    \/ \E s \in TestSlaves, g \in Gens : TickSelectTick(s, g)
    \/ \E s \in TestSlaves, g \in Gens : TickSelectDone(s, g)
    \/ \E s \in TestSlaves, g \in Gens : TickUpdate(s, g)
    \/ \E s \in TestSlaves, g \in Gens : TickSync(s, g)
    \/ \E s \in TestSlaves, a \in ClientOffsets, v \in ClientVals :
         ClientWriteSingleRegister(s, a, v)
    \/ \E s \in TestSlaves, a \in ClientOffsets : ClientReadHoldingRegisters(s, a)
    \/ \E s \in TestSlaves, a \in CoilOffsets, b \in BOOLEAN :
         ClientWriteSingleCoil(s, a, b)
    \/ \E s \in TestSlaves, a \in CoilOffsets : ClientReadCoils(s, a)

SpecClient == Init /\ [][ClientNext]_vars


\* ================================================================ Engine
\* goroutines of one Engine.Start / Engine.Stop call that hold a slot of
\* that call's semaphore
StartInFlight ==
    Cardinality({t \in StartGos :
        pc[t] \in {"start_call", "start_listen", "start_spawn", "returned"}})
StopInFlight(r) ==
    Cardinality({t \in StopGos : RunOf(t[2]) = r /\
        pc[t] \in {"stop_call", "stop_cancel", "stop_store", "returned"}})

\* Engine.Start: CAS Stopped -> Starting, getBindIPs, one goroutine per ip
EngineStartBegin ==
    IF engineState # EngineStateStopped
    THEN /\ engineRet' = [op |-> "Start", err |-> -1]
         /\ UNCHANGED <<engineState, slaves, enginePc, errChan, run, stopCtxDone>>
         /\ UNCHANGED <<slaveVars, threadVars, clientVars, semVars, fleetVars, handlerVars, pointVars>>
    ELSE /\ run < MaxRuns
         /\ \E ipsOk \in BOOLEAN :
              IF ipsOk
              THEN /\ engineState' = EngineStateStarting
                   /\ enginePc' = "start_wait"
                   /\ run' = run + 1
                   /\ errChan' = <<>>
                   /\ pc' = [t \in Threads |->
                               IF t \in StartGos THEN "wait_sem" ELSE pc[t]]
                   /\ target' = [t \in Threads |->
                               IF t \in StartGos THEN 0 ELSE target[t]]
                   /\ ret' = [t \in Threads |->
                               IF t \in StartGos THEN NoRet ELSE ret[t]]
                   /\ UNCHANGED <<engineRet, lastOp>>
              ELSE /\ engineRet' = [op |-> "Start", err |-> -2]
                   /\ UNCHANGED <<engineState, enginePc, run, errChan,
                                  threadVars>>
         /\ UNCHANGED <<slaves, stopCtxDone>>
         /\ UNCHANGED <<slaveVars, clientVars, semVars, fleetVars, handlerVars, pointVars>>

\* goroutine: semaphore <- struct{}{}; slave := NewSlave(ip, ...); slave.Start(ctx)
StartGoAcquire(t) ==
    /\ t \in StartGos
    /\ pc[t] = "wait_sem"
    /\ StartInFlight < SemaphoreCap
    /\ pc' = [pc EXCEPT ![t] = "start_call"]
    /\ target' = [target EXCEPT ![t] = Obj(run, t[2])]
    /\ lastOp' = [lastOp EXCEPT ![t] = "Start"]
    /\ scenario' = [scenario EXCEPT ![Obj(run, t[2])] = ScenarioNormal]
    /\ UNCHANGED ret
    /\ UNCHANGED <<engineStats, startCtxDone, currentScenario, applyPc, applyArg,
                   applySnap>>
    /\ UNCHANGED <<slaveVars, clientVars, engineVars, semVars, handlerVars, pointVars>>

\* if err := slave.Start(ctx); err != nil { errChan <- ...; return }
StartGoRegistersAlways(r) == TRUE
StartGoRegisters(r) == r = "nil"

\* goroutine: errChan <- err, or e.slaves[slave.ID] = slave; <-semaphore; wg.Done()
StartGoFinish(t) ==
    /\ t \in StartGos
    /\ pc[t] = "returned"
    /\ IF StartGoRegisters(ret[t])
       THEN /\ slaves' = [slaves EXCEPT ![IPOf(target[t])] = target[t]]
            /\ UNCHANGED errChan
       ELSE /\ errChan' = Append(errChan, t[2])
            /\ UNCHANGED slaves
    /\ pc' = [pc EXCEPT ![t] = "done"]
    /\ UNCHANGED <<target, ret, lastOp>>
    /\ UNCHANGED <<engineState, enginePc, engineRet, run, stopCtxDone>>
    /\ UNCHANGED <<slaveVars, clientVars, semVars, fleetVars, handlerVars, pointVars>>

Fleet == {slaves[i] : i \in IPs} \ {0}

\* if len(errors) > 0 { if len(e.slaves) == 0 { ... return error } }
AllFailedNever(errors, fleet) == FALSE
AllFailed(errors, fleet) == Len(errors) > 0 /\ fleet = {}

\* wg.Wait(); close(errChan); collect; Store(Stopped) + error, or Store(Running)
EngineStartJoin ==
    /\ enginePc = "start_wait"
    /\ \A t \in StartGos : pc[t] = "done"
    /\ IF AllFailed(errChan, Fleet)
       THEN /\ engineState' = EngineStateStopped
            /\ engineRet' = [op |-> "Start", err |-> errChan[1]]
            /\ UNCHANGED engineStats
       ELSE /\ engineStats' = [SlaveCount |-> Cardinality(Fleet),
                               ActiveSlaves |-> Cardinality(Fleet)]
            /\ engineState' = EngineStateRunning
            /\ engineRet' = [op |-> "Start", err |-> 0]
    /\ enginePc' = "idle"
    /\ UNCHANGED <<slaves, errChan, run, stopCtxDone>>
    /\ UNCHANGED <<startCtxDone, currentScenario, scenario, applyPc, applyArg,
                   applySnap>>
    /\ UNCHANGED <<slaveVars, threadVars, clientVars, semVars, handlerVars, pointVars>>

\* Engine.Stop: CAS Running -> Stopping, snapshot e.slaves, one goroutine each
EngineStopBegin ==
    IF engineState # EngineStateRunning
    THEN /\ engineRet' = [op |-> "Stop", err |-> 0]
         /\ UNCHANGED <<engineState, slaves, enginePc, errChan, run, stopCtxDone>>
         /\ UNCHANGED <<slaveVars, threadVars, clientVars, semVars, fleetVars, handlerVars, pointVars>>
    ELSE /\ engineState' = EngineStateStopping
         /\ enginePc' = "stop_wait"
         /\ stopCtxDone' = FALSE
         /\ pc' = [t \in Threads |->
                     IF t \in StopGos /\ t[2] \in Fleet THEN "wait_sem" ELSE pc[t]]
         /\ target' = [t \in Threads |->
                     IF t \in StopGos /\ t[2] \in Fleet THEN t[2] ELSE target[t]]
         /\ UNCHANGED <<ret, lastOp>>
         /\ UNCHANGED <<slaves, engineRet, errChan, run>>
         /\ UNCHANGED <<slaveVars, clientVars, semVars, fleetVars, handlerVars, pointVars>>

\* goroutine: semaphore <- struct{}{}; s.Stop(ctx)
StopGoAcquire(t) ==
    /\ t \in StopGos
    /\ pc[t] = "wait_sem"
    /\ StopInFlight(RunOf(t[2])) < SemaphoreCap
    /\ pc' = [pc EXCEPT ![t] = "stop_call"]
    /\ lastOp' = [lastOp EXCEPT ![t] = "Stop"]
    /\ UNCHANGED <<target, ret>>
    /\ UNCHANGED <<slaveVars, clientVars, engineVars, semVars, fleetVars, handlerVars, pointVars>>

\* goroutine: <-semaphore; wg.Done()
StopGoFinish(t) ==
    /\ t \in StopGos
    /\ pc[t] = "returned"
    /\ pc' = [pc EXCEPT ![t] = "done"]
    /\ UNCHANGED <<target, ret, lastOp>>
    /\ UNCHANGED <<slaveVars, clientVars, engineVars, semVars, fleetVars, handlerVars, pointVars>>

\* the deadline of the context passed to Engine.Stop expires
StopDeadline ==
    /\ enginePc = "stop_wait"
    /\ ~stopCtxDone
    /\ stopCtxDone' = TRUE
    /\ UNCHANGED <<engineState, slaves, enginePc, engineRet, errChan, run>>
    /\ UNCHANGED <<slaveVars, threadVars, clientVars, semVars, fleetVars, handlerVars, pointVars>>

\* wg.Wait() of the goroutines this Stop spawned has returned
StopAllDone == \A t \in StopGos : RunOf(t[2]) = run => pc[t] \in {"none", "done"}

\* select { case <-done: case <-ctx.Done(): }
StopJoinReadyDoneOnly == StopAllDone
StopJoinReady == StopAllDone \/ stopCtxDone

\* e.slaves = make(map); state.Store(Stopped); return nil
EngineStopJoin ==
    /\ enginePc = "stop_wait"
    /\ StopJoinReady
    /\ slaves' = [i \in IPs |-> 0]
    /\ engineState' = EngineStateStopped
    /\ engineRet' = [op |-> "Stop", err |-> 0]
    /\ enginePc' = "idle"
    /\ UNCHANGED <<errChan, run, stopCtxDone>>
    /\ UNCHANGED <<slaveVars, threadVars, clientVars, semVars, fleetVars, handlerVars, pointVars>>

EngineGos == StartGos \cup StopGos

\* the steps of the goroutines and of the joins
EngineProgress ==
    \/ \E t \in StartGos : StartGoAcquire(t)
    \/ \E t \in EngineGos : SlaveStartCAS(t)
    \/ \E t \in EngineGos : SlaveStartListen(t)
    \/ \E t \in EngineGos : SlaveStartSpawn(t)
    \/ \E t \in StartGos : StartGoFinish(t)
    \/ EngineStartJoin
    \/ \E t \in StopGos : StopGoAcquire(t)
    \/ \E t \in EngineGos : SlaveStopCAS(t)
    \/ \E t \in EngineGos : SlaveStopCancelClose(t)
    \/ \E t \in EngineGos : SlaveStopStore(t)
    \/ \E t \in StopGos : StopGoFinish(t)
    \/ EngineStopJoin

EngineNext ==
    \/ EngineStartBegin
    \/ EngineStopBegin
    \/ StopDeadline
    \/ EngineProgress

SpecEngine == Init /\ [][EngineNext]_vars

\* every runnable goroutine is eventually scheduled
SpecEngineFair == SpecEngine /\ WF_vars(EngineProgress)

\* ------------------------------------------------- Engine.Stats
\* stats := e.stats; the slave_count / active_slaves fields of the snapshot
Stats == [slave_count |-> engineStats.SlaveCount,
          active_slaves |-> engineStats.ActiveSlaves]

\* ------------------------------------------------- Engine.ApplyScenario
\* e.mu.Lock(); e.currentScenario = scenario; e.mu.Unlock()
ApplyScenarioBegin(sc) ==
    /\ applyPc \in {"idle", "returned"}
    /\ currentScenario' = sc
    /\ applyArg' = sc
    /\ applyPc' = "list"
    /\ UNCHANGED <<engineStats, startCtxDone, scenario, applySnap>>
    /\ UNCHANGED <<slaveVars, threadVars, clientVars, engineVars, semVars,
                   handlerVars, pointVars>>

\* e.ListSlaves(): a snapshot of e.slaves under the read lock
ApplyScenarioList ==
    /\ applyPc = "list"
    /\ applySnap' = Fleet
    /\ applyPc' = "forward"
    /\ UNCHANGED <<engineStats, startCtxDone, currentScenario, scenario, applyArg>>
    /\ UNCHANGED <<slaveVars, threadVars, clientVars, engineVars, semVars,
                   handlerVars, pointVars>>

\* slave.ApplyScenario(scenario) for one slave of the snapshot
ApplyScenarioForward(s) ==
    /\ applyPc = "forward"
    /\ s \in applySnap
    /\ scenario' = [scenario EXCEPT ![s] = applyArg]
    /\ applySnap' = applySnap \ {s}
    /\ UNCHANGED <<engineStats, startCtxDone, currentScenario, applyPc, applyArg>>
    /\ UNCHANGED <<slaveVars, threadVars, clientVars, engineVars, semVars,
                   handlerVars, pointVars>>

\* return nil
ApplyScenarioReturn ==
    /\ applyPc = "forward"
    /\ applySnap = {}
    /\ applyPc' = "returned"
    /\ UNCHANGED <<engineStats, startCtxDone, currentScenario, scenario, applyArg,
                   applySnap>>
    /\ UNCHANGED <<slaveVars, threadVars, clientVars, engineVars, semVars,
                   handlerVars, pointVars>>

\* Engine.GetScenario
GetScenario == currentScenario

ScenarioNext ==
    \/ EngineNext
    \/ \E sc \in AppliedScenarios : ApplyScenarioBegin(sc)
    \/ ApplyScenarioList
    \/ \E s \in Slaves : ApplyScenarioForward(s)
    \/ ApplyScenarioReturn

SpecScenario == Init /\ [][ScenarioNext]_vars

\* ------------------------------------------- the ctx of Engine.Start
\* the caller cancels the ctx it passed to Engine.Start while Start waits
StartCancel ==
    /\ enginePc = "start_wait"
    /\ ~startCtxDone[run]
    /\ startCtxDone' = [startCtxDone EXCEPT ![run] = TRUE]
    /\ UNCHANGED <<engineStats, currentScenario, scenario, applyPc, applyArg,
                   applySnap>>
    /\ UNCHANGED <<slaveVars, threadVars, clientVars, engineVars, semVars,
                   handlerVars, pointVars>>

CancelNext ==
    \/ EngineNext
    \/ StartCancel

SpecCancel == Init /\ [][CancelNext]_vars

\* ------------------------------------- the ctx a caller passed to Start
\* the caller of slave.Start(ctx) cancels ctx (cancel(), or its deadline
\* passes) at any moment; Stop is not involved
CallerCtxCancel(r) ==
    /\ ~startCtxDone[r]
    /\ startCtxDone' = [startCtxDone EXCEPT ![r] = TRUE]
    /\ UNCHANGED <<engineStats, currentScenario, scenario, applyPc, applyArg,
                   applySnap>>
    /\ UNCHANGED <<slaveVars, threadVars, clientVars, engineVars, semVars,
                   handlerVars, pointVars>>

TickerNext ==
    \/ SlaveNext
    \/ \E s \in TestSlaves : CallerCtxCancel(RunOf(s))

SpecTicker == Init /\ [][TickerNext]_vars

\* ===================================== the semaphore of Engine.Start / Stop
\* The goroutines of one call, counted by position: blocked on
\* `semaphore <- struct{}{}`, holding a slot while the slave call runs, or
\* past `<-semaphore` and wg.Done().

\* the send on the channel of capacity 100 does not block
SemHasSlotAlways == TRUE
SemHasSlot == semInFlight < SemaphoreCap

\* Engine.Start spawns one goroutine per ip; the goroutines of an earlier
\* call have all finished
SemStartSpawn ==
    /\ semPhase \in {"idle", "stopped"}
    /\ semWaiting = 0 /\ semInFlight = 0
    /\ \E n \in 1..FleetSize :
         /\ semN' = n
         /\ semWaiting' = n
    /\ semInFlight' = 0
    /\ semDone' = 0
    /\ semPhase' = "starting"
    /\ UNCHANGED <<slaveVars, threadVars, clientVars, engineVars, fleetVars,
                 handlerVars, pointVars>>

\* semaphore <- struct{}{}, then slave.Start(ctx) or s.Stop(ctx) is called
SemAcquire ==
    /\ semWaiting > 0
    /\ SemHasSlot
    /\ semWaiting' = semWaiting - 1
    /\ semInFlight' = semInFlight + 1
    /\ UNCHANGED <<semPhase, semN, semDone>>
    /\ UNCHANGED <<slaveVars, threadVars, clientVars, engineVars, fleetVars,
                 handlerVars, pointVars>>

\* the slave call has returned: <-semaphore; wg.Done()
SemRelease ==
    /\ semInFlight > 0
    /\ semInFlight' = semInFlight - 1
    /\ semDone' = semDone + 1
    /\ UNCHANGED <<semPhase, semN, semWaiting>>
    /\ UNCHANGED <<slaveVars, threadVars, clientVars, engineVars, fleetVars,
                 handlerVars, pointVars>>

\* Engine.Start: wg.Wait() returns
SemStartJoin ==
    /\ semPhase = "starting"
    /\ semDone = semN
    /\ semPhase' = "running"
    /\ UNCHANGED <<semN, semWaiting, semInFlight, semDone>>
    /\ UNCHANGED <<slaveVars, threadVars, clientVars, engineVars, fleetVars,
                 handlerVars, pointVars>>

\* Engine.Stop spawns one goroutine per slave of the fleet
SemStopSpawn ==
    /\ semPhase = "running"
    /\ semWaiting' = semN
    /\ semInFlight' = 0
    /\ semDone' = 0
    /\ semPhase' = "stopping"
    /\ UNCHANGED semN
    /\ UNCHANGED <<slaveVars, threadVars, clientVars, engineVars, fleetVars,
                 handlerVars, pointVars>>

\* Engine.Stop: select returns, on done or on the deadline
SemStopJoin ==
    /\ semPhase = "stopping"
    /\ semPhase' = "stopped"
    /\ UNCHANGED <<semN, semWaiting, semInFlight, semDone>>
    /\ UNCHANGED <<slaveVars, threadVars, clientVars, engineVars, fleetVars,
                 handlerVars, pointVars>>

SemNext ==
    \/ SemStartSpawn
    \/ SemAcquire
    \/ SemRelease
    \/ SemStartJoin
    \/ SemStopSpawn
    \/ SemStopJoin

SpecSem == Init /\ [][SemNext]_vars

\* ======================================================= RequestHandler
ExceptionCodeIllegalDataAddress == 2

\* unit ids a request carries: "any", the slave's own, another one
RequestUnits == {0, DefaultUnitID, DefaultUnitID + 1}
\* addresses a request carries: wire offsets and the user-facing 40001
WireAddrs == {0, SpaceSize - 1, SpaceSize, HoldingBase}
\* quantities of a read request: of bits (FC 01/02), of words (FC 03/04)
BitQuantities == {0, 1, 2001}
WordQuantities == {0, 1, 126}
\* register / coil counts of an FC 15 / FC 16 request
WriteCounts == {1, SpaceSize}
\* packet-loss rates set with SetPacketLoss and values of rand.Float64(),
\* both in percent
LossRates == {0, 50}
Draws == {10, 90}
\* rand.Float64() is not called when the rate is <= 0
DrawsAt(rate) == IF rate <= 0 THEN {0} ELSE Draws

\* if h.packetLossRate <= 0 { return false }; return rand.Float64() < rate
shouldDropPacketNever(rate, u) == FALSE
shouldDropPacket(rate, u) == IF rate <= 0 THEN FALSE ELSE u < rate

\* Slave.recordRequest(bytesIn, bytesOut, hasError)
recordRequest(st, bytesIn, bytesOut, hasError) ==
    [RequestCount |-> st.RequestCount + 1,
     ErrorCount |-> IF hasError THEN st.ErrorCount + 1 ELSE st.ErrorCount,
     BytesReceived |-> st.BytesReceived + bytesIn,
     BytesSent |-> st.BytesSent + bytesOut]

\* what a handler method returns: (nil, nil) or nil; (nil, err) with the
\* RegisterMap's error; (data, nil); a *ModbusError
NilResult == [hasData |-> FALSE, data |-> <<>>, err |-> "nil", code |-> 0]
ErrResult == [hasData |-> FALSE, data |-> <<>>, err |-> "error", code |-> 0]
DataResult(d) == [hasData |-> TRUE, data |-> d, err |-> "nil", code |-> 0]
ExceptionResult(c) ==
    [hasData |-> FALSE, data |-> <<>>, err |-> "exception", code |-> c]

\* the request just handled was dropped by the packet-loss injection
WasDropped(q) == q.n > 0 /\ q.rate > 0 /\ q.u < q.rate

\* the request and the result of the handler method
Answer(fc, unit, address, quantity, value, u, res) ==
    [n |-> hresp.n + 1, unit |-> unit, fc |-> fc, addr |-> address,
     qty |-> quantity, val |-> value, rate |-> packetLossRate,
     u |-> IF packetLossRate > 0 THEN u ELSE 0,
     hasData |-> res.hasData, data |-> res.data, err |-> res.err,
     code |-> res.code, afterDrop |-> WasDropped(hresp)]

\* SetPacketLoss(rate)
SetPacketLoss(rate) ==
    /\ hresp.n < MaxRequests
    /\ packetLossRate' = rate
    /\ UNCHANGED <<hrm, hstats, hresp, mresp>>
    /\ UNCHANGED <<slaveVars, threadVars, clientVars, engineVars, semVars, fleetVars,
                 pointVars>>

\* FC 01 .. FC 04; the unit id of the request is not passed to the handler
HandleReadCoils(unit, address, quantity, u) ==
    /\ hresp.n < MaxRequests
    /\ LET r == ReadCoils(hrm, address, quantity) IN
       IF shouldDropPacket(packetLossRate, u)
       THEN /\ hresp' = Answer(1, unit, address, quantity, 0, u, NilResult)
            /\ UNCHANGED hstats
       ELSE IF r.err
       THEN /\ hstats' = recordRequest(hstats, 0, 0, TRUE)
            /\ hresp' = Answer(1, unit, address, quantity, 0, u, ErrResult)
       ELSE /\ hstats' = recordRequest(hstats, 8, 3 + (quantity + 7) \div 8, FALSE)
            /\ hresp' = Answer(1, unit, address, quantity, 0, u,
                               DataResult(r.data))
    /\ UNCHANGED <<hrm, mresp, packetLossRate>>
    /\ UNCHANGED <<slaveVars, threadVars, clientVars, engineVars, semVars, fleetVars,
                 pointVars>>

HandleReadDiscreteInputs(unit, address, quantity, u) ==
    /\ hresp.n < MaxRequests
    /\ LET r == ReadDiscreteInputs(hrm, address, quantity) IN
       IF shouldDropPacket(packetLossRate, u)
       THEN /\ hresp' = Answer(2, unit, address, quantity, 0, u, NilResult)
            /\ UNCHANGED hstats
       ELSE IF r.err
       THEN /\ hstats' = recordRequest(hstats, 0, 0, TRUE)
            /\ hresp' = Answer(2, unit, address, quantity, 0, u, ErrResult)
       ELSE /\ hstats' = recordRequest(hstats, 8, 3 + (quantity + 7) \div 8, FALSE)
            /\ hresp' = Answer(2, unit, address, quantity, 0, u,
                               DataResult(r.data))
    /\ UNCHANGED <<hrm, mresp, packetLossRate>>
    /\ UNCHANGED <<slaveVars, threadVars, clientVars, engineVars, semVars, fleetVars,
                 pointVars>>

HandleReadHoldingRegisters(unit, address, quantity, u) ==
    /\ hresp.n < MaxRequests
    /\ LET r == ReadHoldingRegisters(hrm, address, quantity) IN
       IF shouldDropPacket(packetLossRate, u)
       THEN /\ hresp' = Answer(3, unit, address, quantity, 0, u, NilResult)
            /\ UNCHANGED hstats
       ELSE IF r.err
       THEN /\ hstats' = recordRequest(hstats, 0, 0, TRUE)
            /\ hresp' = Answer(3, unit, address, quantity, 0, u, ErrResult)
       ELSE /\ hstats' = recordRequest(hstats, 8, 3 + quantity * 2, FALSE)
            /\ hresp' = Answer(3, unit, address, quantity, 0, u,
                               DataResult(r.data))
    /\ UNCHANGED <<hrm, mresp, packetLossRate>>
    /\ UNCHANGED <<slaveVars, threadVars, clientVars, engineVars, semVars, fleetVars,
                 pointVars>>

HandleReadInputRegisters(unit, address, quantity, u) ==
    /\ hresp.n < MaxRequests
    /\ LET r == ReadInputRegisters(hrm, address, quantity) IN
       IF shouldDropPacket(packetLossRate, u)
       THEN /\ hresp' = Answer(4, unit, address, quantity, 0, u, NilResult)
            /\ UNCHANGED hstats
       ELSE IF r.err
       THEN /\ hstats' = recordRequest(hstats, 0, 0, TRUE)
            /\ hresp' = Answer(4, unit, address, quantity, 0, u, ErrResult)
       ELSE /\ hstats' = recordRequest(hstats, 8, 3 + quantity * 2, FALSE)
            /\ hresp' = Answer(4, unit, address, quantity, 0, u,
                               DataResult(r.data))
    /\ UNCHANGED <<hrm, mresp, packetLossRate>>
    /\ UNCHANGED <<slaveVars, threadVars, clientVars, engineVars, semVars, fleetVars,
                 pointVars>>

\* FC 05, FC 06: GetDefinition(address), then the write
HandleWriteSingleCoil(unit, address, value, u) ==
    /\ hresp.n < MaxRequests
    /\ LET meta == GetDefinition(hrm, address)
           r == WriteCoil(hrm, address, value) IN
       IF shouldDropPacket(packetLossRate, u)
       THEN /\ hresp' = Answer(5, unit, address, 1, IF value THEN 1 ELSE 0, u, NilResult)
            /\ UNCHANGED <<hrm, hstats>>
       ELSE IF meta.ok /\ ~meta.Writable
       THEN /\ hstats' = recordRequest(hstats, 0, 0, TRUE)
            /\ hresp' = Answer(5, unit, address, 1, IF value THEN 1 ELSE 0, u,
                               ExceptionResult(ExceptionCodeIllegalDataAddress))
            /\ UNCHANGED hrm
       ELSE IF r.err
       THEN /\ hstats' = recordRequest(hstats, 0, 0, TRUE)
            /\ hresp' = Answer(5, unit, address, 1, IF value THEN 1 ELSE 0, u, ErrResult)
            /\ UNCHANGED hrm
       ELSE /\ hrm' = r.rm
            /\ hstats' = recordRequest(hstats, 8, 8, FALSE)
            /\ hresp' = Answer(5, unit, address, 1, IF value THEN 1 ELSE 0, u, NilResult)
    /\ UNCHANGED <<mresp, packetLossRate>>
    /\ UNCHANGED <<slaveVars, threadVars, clientVars, engineVars, semVars, fleetVars,
                 pointVars>>

HandleWriteSingleRegister(unit, address, value, u) ==
    /\ hresp.n < MaxRequests
    /\ LET meta == GetDefinition(hrm, address)
           r == WriteHoldingRegister(hrm, address, value) IN
       IF shouldDropPacket(packetLossRate, u)
       THEN /\ hresp' = Answer(6, unit, address, 1, value, u, NilResult)
            /\ UNCHANGED <<hrm, hstats>>
       ELSE IF meta.ok /\ ~meta.Writable
       THEN /\ hstats' = recordRequest(hstats, 0, 0, TRUE)
            /\ hresp' = Answer(6, unit, address, 1, value, u,
                               ExceptionResult(ExceptionCodeIllegalDataAddress))
            /\ UNCHANGED hrm
       ELSE IF r.err
       THEN /\ hstats' = recordRequest(hstats, 0, 0, TRUE)
            /\ hresp' = Answer(6, unit, address, 1, value, u, ErrResult)
            /\ UNCHANGED hrm
       ELSE /\ hrm' = r.rm
            /\ hstats' = recordRequest(hstats, 8, 8, FALSE)
            /\ hresp' = Answer(6, unit, address, 1, value, u, NilResult)
    /\ UNCHANGED <<mresp, packetLossRate>>
    /\ UNCHANGED <<slaveVars, threadVars, clientVars, engineVars, semVars, fleetVars,
                 pointVars>>

\* FC 15, FC 16
HandleWriteMultipleCoils(unit, address, values, u) ==
    /\ hresp.n < MaxRequests
    /\ LET r == WriteCoils(hrm, address, values) IN
       IF shouldDropPacket(packetLossRate, u)
       THEN /\ hresp' = Answer(15, unit, address, Len(values), IF values[1] THEN 1 ELSE 0, u,
                               NilResult)
            /\ UNCHANGED <<hrm, hstats>>
       ELSE IF r.err
       THEN /\ hstats' = recordRequest(hstats, 0, 0, TRUE)
            /\ hresp' = Answer(15, unit, address, Len(values), IF values[1] THEN 1 ELSE 0, u,
                               ErrResult)
            /\ UNCHANGED hrm
       ELSE /\ hrm' = r.rm
            /\ hstats' = recordRequest(hstats, 9 + (Len(values) + 7) \div 8, 8, FALSE)
            /\ hresp' = Answer(15, unit, address, Len(values), IF values[1] THEN 1 ELSE 0, u,
                               NilResult)
    /\ UNCHANGED <<mresp, packetLossRate>>
    /\ UNCHANGED <<slaveVars, threadVars, clientVars, engineVars, semVars, fleetVars,
                 pointVars>>

HandleWriteMultipleRegisters(unit, address, values, u) ==
    /\ hresp.n < MaxRequests
    /\ LET r == WriteHoldingRegisters(hrm, address, values) IN
       IF shouldDropPacket(packetLossRate, u)
       THEN /\ hresp' = Answer(16, unit, address, Len(values), values[1], u,
                               NilResult)
            /\ UNCHANGED <<hrm, hstats>>
       ELSE IF r.err
       THEN /\ hstats' = recordRequest(hstats, 0, 0, TRUE)
            /\ hresp' = Answer(16, unit, address, Len(values), values[1], u,
                               ErrResult)
            /\ UNCHANGED hrm
       ELSE /\ hrm' = r.rm
            /\ hstats' = recordRequest(hstats, 9 + Len(values) * 2, 8, FALSE)
            /\ hresp' = Answer(16, unit, address, Len(values), values[1], u,
                               NilResult)
    /\ UNCHANGED <<mresp, packetLossRate>>
    /\ UNCHANGED <<slaveVars, threadVars, clientVars, engineVars, semVars, fleetVars,
                 pointVars>>

\* n copies of v
Repeat(v, n) == [i \in 1..n |-> v]

HandlerNext ==
    \/ \E rate \in LossRates : SetPacketLoss(rate)
    \/ \E unit \in RequestUnits, a \in WireAddrs, u \in DrawsAt(packetLossRate) :
          \/ \E q \in BitQuantities : HandleReadCoils(unit, a, q, u)
          \/ \E q \in BitQuantities : HandleReadDiscreteInputs(unit, a, q, u)
          \/ \E q \in WordQuantities : HandleReadHoldingRegisters(unit, a, q, u)
          \/ \E q \in WordQuantities : HandleReadInputRegisters(unit, a, q, u)
    \/ \E unit \in RequestUnits, a \in WireAddrs, u \in DrawsAt(packetLossRate) :
          \/ \E b \in BOOLEAN : HandleWriteSingleCoil(unit, a, b, u)
          \/ \E v \in WriteVals : HandleWriteSingleRegister(unit, a, v, u)
          \/ \E b \in BOOLEAN, n \in WriteCounts :
                HandleWriteMultipleCoils(unit, a, Repeat(b, n), u)
          \/ \E v \in WriteVals, n \in WriteCounts :
                HandleWriteMultipleRegisters(unit, a, Repeat(v, n), u)

SpecHandler == Init /\ [][HandlerNext]_vars

\* ================================================= direct RegisterMap calls
\* start addresses and quantities of the calls
MapAddrs == (0..(SpaceSize + 1))
            \cup ((HoldingBase - 1)..(HoldingBase + SpaceSize)) \cup {65535}
MapCounts == 0..(SpaceSize + 1)

\* one call of a RegisterMap method: r is what the method returns
MapCall(op, space, address, quantity, r) ==
    /\ mresp.n < MaxRequests
    /\ mresp' = [n |-> mresp.n + 1, op |-> op, space |-> space,
                 addr |-> address, qty |-> quantity, err |-> r.err]
    /\ hrm' = r.rm
    /\ UNCHANGED <<hstats, hresp, packetLossRate>>
    /\ UNCHANGED <<slaveVars, threadVars, clientVars, engineVars, semVars, fleetVars,
                 pointVars>>

RegisterMapNext ==
    \/ \E a \in MapAddrs : MapCall("ReadCoil", "coils", a, 1, ReadCoil(hrm, a))
    \/ \E a \in MapAddrs, n \in MapCounts :
          MapCall("ReadCoils", "coils", a, n, ReadCoils(hrm, a, n))
    \/ \E a \in MapAddrs, b \in BOOLEAN :
          MapCall("WriteCoil", "coils", a, 1, WriteCoil(hrm, a, b))
    \/ \E a \in MapAddrs, n \in MapCounts :
          MapCall("WriteCoils", "coils", a, n, WriteCoils(hrm, a, Repeat(TRUE, n)))
    \/ \E a \in MapAddrs :
          MapCall("ReadDiscreteInput", "discrete", a, 1, ReadDiscreteInput(hrm, a))
    \/ \E a \in MapAddrs, n \in MapCounts :
          MapCall("ReadDiscreteInputs", "discrete", a, n,
                  ReadDiscreteInputs(hrm, a, n))
    \/ \E a \in MapAddrs :
          MapCall("ReadInputRegister", "input", a, 1, ReadInputRegister(hrm, a))
    \/ \E a \in MapAddrs, n \in MapCounts :
          MapCall("ReadInputRegisters", "input", a, n,
                  ReadInputRegisters(hrm, a, n))
    \/ \E a \in MapAddrs :
          MapCall("ReadHoldingRegister", "holding", a, 1,
                  ReadHoldingRegister(hrm, a))
    \/ \E a \in MapAddrs, n \in MapCounts :
          MapCall("ReadHoldingRegisters", "holding", a, n,
                  ReadHoldingRegisters(hrm, a, n))
    \/ \E a \in MapAddrs, v \in WriteVals :
          MapCall("WriteHoldingRegister", "holding", a, 1,
                  WriteHoldingRegister(hrm, a, v))
    \/ \E a \in MapAddrs, v \in WriteVals, n \in MapCounts :
          MapCall("WriteHoldingRegisters", "holding", a, n,
                  WriteHoldingRegisters(hrm, a, Repeat(v, n)))

SpecRegisterMap == Init /\ [][RegisterMapNext]_vars

\* ===================================================== scenario ticks
\* Slave.Start on a stopped slave, taken as one step: the state reaches
\* Running, syncRegistersToServer() has run and the runScenarioUpdater
\* goroutine waits for its first tick.
SlaveStarted(s) ==
    /\ tick[s].pc = "none"
    /\ state[s] = SlaveStateStopped
    /\ state' = [state EXCEPT ![s] = SlaveStateRunning]
    /\ memory' = [memory EXCEPT ![s] = points[s]]
    /\ tick' = [tick EXCEPT ![s].pc = "select"]
    /\ UNCHANGED <<registers, server, listening, scenarioCtx, cancelled,
                   tickerPc, tickerC, nStarts>>
    /\ UNCHANGED <<clock, scenarioHandlers, points, seen, sagCall>>
    /\ UNCHANGED <<threadVars, clientVars, engineVars, semVars, fleetVars,
                   handlerVars, lockVars, unitAssign, rtrip, utilVars>>

\* what the rest of the steps below leave alone
TickFrame ==
    UNCHANGED <<slaveVars, threadVars, clientVars, engineVars, semVars,
                handlerVars, lockVars, unitAssign, rtrip, sagCall, utilVars>>
FleetFrame ==
    UNCHANGED <<engineStats, startCtxDone, currentScenario, applyPc, applyArg,
                applySnap>>

\* time passes, between two ticks or two calls of a handler: the steps of
\* one tick are taken to run within the same second
Advance(d) ==
    /\ clock.n < MaxAdvances
    /\ \A s \in ShareSlaves : tick[s].pc \in {"none", "select"}
    /\ clock' = [now |-> clock.now + d, n |-> clock.n + 1]
    /\ UNCHANGED <<scenarioHandlers, points, memory, tick, seen, scenario>>
    /\ TickFrame /\ FleetFrame

\* Slave.ApplyScenario(sc): s.scenario = scenario under s.mu, nothing else
SlaveApplyScenario(s, sc) ==
    /\ scenario' = [scenario EXCEPT ![s] = sc]
    /\ tick' = [tick EXCEPT ![s].applied = TRUE]
    /\ UNCHANGED <<clock, scenarioHandlers, points, memory, seen>>
    /\ TickFrame /\ FleetFrame

\* updateByScenario: scenario := s.scenario under s.mu.RLock()
ReadScenarioStale(s) == tick[s].scn
ReadScenario(s) == scenario[s]

\* case <-ticker.C: updateByScenario() reads the scenario and finds its handler
TickBegin(s) ==
    /\ tick[s].pc = "select"
    /\ tick[s].n < MaxTicks
    /\ tick' = [tick EXCEPT ![s].pc = "update",
                            ![s].scn = ReadScenario(s),
                            ![s].first = tick[s].applied,
                            ![s].applied = FALSE,
                            ![s].n = @ + 1,
                            ![s].pre = points[s]]
    /\ seen' = [seen EXCEPT ![s] = NoRead]
    /\ UNCHANGED <<clock, scenarioHandlers, points, memory, scenario>>
    /\ TickFrame /\ FleetFrame

\* handler.Update(s.registers, params) up to SetScaledValue(40001, voltage)
TickUpdateVoltage(s, v) ==
    /\ tick[s].pc = "update"
    /\ scenarioHandlers' =
          UpdateHead(scenarioHandlers, tick[s].scn, ConfigParams(tick[s].scn),
                     v, clock.now)
    /\ points' = [points EXCEPT ![s].voltage = v]
    /\ tick' = [tick EXCEPT ![s].pc = "rest"]
    /\ UNCHANGED <<clock, memory, seen, scenario>>
    /\ TickFrame /\ FleetFrame

\* the SetScaledValue calls that follow, each its own critical section:
\* (40004, s.energy) reads the handler's energy when it is called, and
\* power is the local computed from the voltage just written
TickUpdateRest(s) ==
    /\ tick[s].pc = "rest"
    /\ points' = [points EXCEPT
                    ![s].energy = EnergyRaw(NormalOf(scenarioHandlers, tick[s].scn)),
                    ![s].power = PowerRaw(points[s].voltage)]
    /\ tick' = [tick EXCEPT ![s].pc = IF tick[s].scn = ScenarioVoltageSag
                                      THEN "sag" ELSE "sync"]
    /\ UNCHANGED <<clock, scenarioHandlers, memory, seen, scenario>>
    /\ TickFrame /\ FleetFrame

\* VoltageSagScenario.Update after normalScenario.Update returned
TickSag(s) ==
    /\ tick[s].pc = "sag"
    /\ points' = [points EXCEPT
                    ![s] = SagApply(scenarioHandlers.voltage_sag, @, clock.now)]
    /\ tick' = [tick EXCEPT ![s].pc = "sync"]
    /\ UNCHANGED <<clock, scenarioHandlers, memory, seen, scenario>>
    /\ TickFrame /\ FleetFrame

\* syncRegistersToServer: s.server.HoldingRegisters = make([]uint16, n)
TickSyncMake(s) ==
    /\ tick[s].pc = "sync"
    /\ memory' = [memory EXCEPT ![s] = ZeroPoints]
    /\ tick' = [tick EXCEPT ![s].pc = "copy"]
    /\ UNCHANGED <<clock, scenarioHandlers, points, seen, scenario>>
    /\ TickFrame /\ FleetFrame

\* copy(s.server.HoldingRegisters, holdingRegs); updateByScenario returns
TickSyncCopy(s) ==
    /\ tick[s].pc = "copy"
    /\ memory' = [memory EXCEPT ![s] = points[s]]
    /\ tick' = [tick EXCEPT ![s].pc = "select"]
    /\ UNCHANGED <<clock, scenarioHandlers, points, seen, scenario>>
    /\ TickFrame /\ FleetFrame

\* a client's FC 03 read of the points while a tick is in progress, served
\* by mbserver from the server memory without the slave's lock
ClientReadMemory(s) ==
    /\ tick[s].pc \notin {"none", "select"}
    /\ seen' = [seen EXCEPT ![s] = [read |-> TRUE, val |-> memory[s]]]
    /\ UNCHANGED <<clock, scenarioHandlers, points, memory, tick, scenario>>
    /\ TickFrame /\ FleetFrame

\* the same read served by RequestHandler.HandleReadHoldingRegisters:
\* RegisterMap.ReadHoldingRegisters under rm.mu.RLock()
HandlerReadPoints(s) ==
    /\ tick[s].pc \notin {"none", "select"}
    /\ seen' = [seen EXCEPT ![s] = [read |-> TRUE, val |-> points[s]]]
    /\ UNCHANGED <<clock, scenarioHandlers, points, memory, tick, scenario>>
    /\ TickFrame /\ FleetFrame

\* the link knobs of the slave's protocol engine: NewRequestHandler leaves
\* jitterEnabled, jitterMin, jitterMax zero; only SetJitter and SetPacketLoss
\* change them
LinkKnobs(s) ==
    [jitterEnabled |-> FALSE, jitterMin |-> 0, jitterMax |-> 0,
     packetLossRate |-> packetLossRate]
\* what the handler of sc publishes: GetJitterRange(), GetLossRate()
PublishedKnobs(sc) ==
    CASE sc = ScenarioJitter ->
            [jitterEnabled |-> TRUE,
             jitterMin |-> scenarioHandlers.jitter.jitterMin,
             jitterMax |-> scenarioHandlers.jitter.jitterMax,
             packetLossRate |-> 0]
      [] sc = ScenarioPacketLoss ->
            [jitterEnabled |-> FALSE, jitterMin |-> 0, jitterMax |-> 0,
             packetLossRate |-> scenarioHandlers.packet_loss.lossRate]
      [] OTHER ->
            [jitterEnabled |-> FALSE, jitterMin |-> 0, jitterMax |-> 0,
             packetLossRate |-> 0]

TickNext ==
    \/ \E s \in TickSlaves : SlaveStarted(s)
    \/ \E d \in TickAdvanceSteps : Advance(d)
    \/ \E s \in TickSlaves, sc \in ScenarioTypes : SlaveApplyScenario(s, sc)
    \/ \E s \in TickSlaves : TickBegin(s)
    \/ \E s \in TickSlaves, v \in VoltageRaws : TickUpdateVoltage(s, v)
    \/ \E s \in TickSlaves : TickUpdateRest(s)
    \/ \E s \in TickSlaves : TickSag(s)
    \/ \E s \in TickSlaves : TickSyncMake(s)
    \/ \E s \in TickSlaves : TickSyncCopy(s)
    \/ \E s \in TickSlaves : ClientReadMemory(s)
    \/ \E s \in TickSlaves : HandlerReadPoints(s)

SpecTick == Init /\ [][TickNext]_vars

\* --------------------------- two slaves of one process, both in Normal
ShareNext ==
    \/ \E s \in ShareSlaves : SlaveStarted(s)
    \/ \E d \in TickAdvanceSteps : Advance(d)
    \/ \E s \in ShareSlaves : TickBegin(s)
    \/ \E s \in ShareSlaves, v \in VoltageRaws : TickUpdateVoltage(s, v)
    \/ \E s \in ShareSlaves : TickUpdateRest(s)
    \/ \E s \in ShareSlaves : TickSyncMake(s)
    \/ \E s \in ShareSlaves : TickSyncCopy(s)

SpecShare == Init /\ [][ShareNext]_vars

\* ============================== a VoltageSagScenario called directly
\* params a caller passes: Duration in seconds, VoltageVariance in 1/1000
SagDurations == {0, 5}
SagVariances == {0, 200, 500, 1000, 1200}
\* the slave whose register map the handler is given
SagSlave == CHOOSE s \in TickSlaves : TRUE

\* handler.Update(rm, p), run to completion by its only caller
SagUpdate(p, v) ==
    LET h == [SagInit(scenarioHandlers.voltage_sag, p, clock.now)
                EXCEPT !.normalScenario = NormalUpdate(@, v, clock.now)]
        pts == [voltage |-> v, energy |-> EnergyRaw(h.normalScenario),
                power |-> PowerRaw(v)]
    IN
    /\ scenarioHandlers' = [scenarioHandlers EXCEPT !.voltage_sag = h]
    /\ points' = [points EXCEPT ![SagSlave] = SagApply(h, pts, clock.now)]
    /\ sagCall' = IF sagCall.fresh
                  THEN [op |-> "Update", at |-> clock.now, start |-> clock.now,
                        params |-> p, fresh |-> FALSE]
                  ELSE [sagCall EXCEPT !.op = "Update", !.at = clock.now]
    /\ UNCHANGED <<clock, memory, tick, seen>>
    /\ UNCHANGED <<slaveVars, threadVars, clientVars, engineVars, semVars,
                   fleetVars, handlerVars, lockVars, unitAssign, rtrip, utilVars>>

\* handler.Reset(rm)
SagReset ==
    /\ scenarioHandlers' =
          [scenarioHandlers EXCEPT
              !.voltage_sag.startTime = ZeroTime,
              !.voltage_sag.normalScenario = NormalReset(@, clock.now)]
    /\ points' = [points EXCEPT ![SagSlave] = BaselinePoints]
    /\ sagCall' = [sagCall EXCEPT !.op = "Reset", !.fresh = TRUE]
    /\ UNCHANGED <<clock, memory, tick, seen>>
    /\ UNCHANGED <<slaveVars, threadVars, clientVars, engineVars, semVars,
                   fleetVars, handlerVars, lockVars, unitAssign, rtrip, utilVars>>

SagNext ==
    \/ \E d \in SagDurations, x \in SagVariances, v \in VoltageRaws :
          SagUpdate([NoParams EXCEPT !.Duration = d, !.VoltageVariance = x], v)
    \/ SagReset
    \/ \E d \in AdvanceSteps : Advance(d)

SpecSag == Init /\ [][SagNext]_vars

\* ================== SetScaledValue on a Uint32 point against a bulk read
LockFrame ==
    UNCHANGED <<slaveVars, threadVars, clientVars, engineVars, semVars,
                fleetVars, handlerVars, tickVars, unitAssign, rtrip, utilVars>>

\* rm.mu.Lock() returns: no writer and no reader holds the lock
CanLock == rmMu.writer = 0 /\ rmMu.readers = 0
\* rm.mu.RLock() returns: no writer holds the lock
CanRLockAlways == TRUE
CanRLock == rmMu.writer = 0

\* a goroutine calls SetScaledValue(40004, v)
SetCall(w, v) ==
    /\ setPc[w] = "idle"
    /\ setPc' = [setPc EXCEPT ![w] = "lock"]
    /\ setVal' = [setVal EXCEPT ![w] = v]
    /\ UNCHANGED <<rmMu, words, written, readPc, readBuf>>
    /\ LockFrame
\* rm.mu.Lock()
SetLock(w) ==
    /\ setPc[w] = "lock"
    /\ CanLock
    /\ rmMu' = [rmMu EXCEPT !.writer = w]
    /\ setPc' = [setPc EXCEPT ![w] = "high"]
    /\ UNCHANGED <<words, setVal, written, readPc, readBuf>>
    /\ LockFrame
\* rm.holdingRegisters[idx] = uint16(u32 >> 16)
SetHigh(w) ==
    /\ setPc[w] = "high"
    /\ words' = [words EXCEPT ![1] = HighWord(setVal[w])]
    /\ setPc' = [setPc EXCEPT ![w] = "low"]
    /\ UNCHANGED <<rmMu, setVal, written, readPc, readBuf>>
    /\ LockFrame
\* rm.holdingRegisters[idx+1] = uint16(u32)
SetLow(w) ==
    /\ setPc[w] = "low"
    /\ words' = [words EXCEPT ![2] = LowWord(setVal[w])]
    /\ written' = written \cup {setVal[w]}
    /\ setPc' = [setPc EXCEPT ![w] = "unlock"]
    /\ UNCHANGED <<rmMu, setVal, readPc, readBuf>>
    /\ LockFrame
\* defer rm.mu.Unlock()
SetUnlock(w) ==
    /\ setPc[w] = "unlock"
    /\ rmMu' = [rmMu EXCEPT !.writer = 0]
    /\ setPc' = [setPc EXCEPT ![w] = "idle"]
    /\ UNCHANGED <<words, setVal, written, readPc, readBuf>>
    /\ LockFrame

\* a goroutine calls ReadHoldingRegisters(40004, 2)
ReadCall ==
    /\ readPc \in {"idle", "done"}
    /\ readPc' = "rlock"
    /\ UNCHANGED <<rmMu, words, setPc, setVal, written, readBuf>>
    /\ LockFrame
\* rm.mu.RLock()
ReadRLock ==
    /\ readPc = "rlock"
    /\ CanRLock
    /\ rmMu' = [rmMu EXCEPT !.readers = @ + 1]
    /\ readPc' = "copy0"
    /\ UNCHANGED <<words, setPc, setVal, written, readBuf>>
    /\ LockFrame
\* copy(result, rm.holdingRegisters[startIdx:endIdx]): first word
ReadWord0 ==
    /\ readPc = "copy0"
    /\ readBuf' = [readBuf EXCEPT ![1] = words[1]]
    /\ readPc' = "copy1"
    /\ UNCHANGED <<rmMu, words, setPc, setVal, written>>
    /\ LockFrame
\* second word
ReadWord1 ==
    /\ readPc = "copy1"
    /\ readBuf' = [readBuf EXCEPT ![2] = words[2]]
    /\ readPc' = "runlock"
    /\ UNCHANGED <<rmMu, words, setPc, setVal, written>>
    /\ LockFrame
\* defer rm.mu.RUnlock(); the call returns result
ReadRUnlock ==
    /\ readPc = "runlock"
    /\ rmMu' = [rmMu EXCEPT !.readers = @ - 1]
    /\ readPc' = "done"
    /\ UNCHANGED <<words, setPc, setVal, written, readBuf>>
    /\ LockFrame

LockNext ==
    \/ \E w \in Setters, v \in U32Vals : SetCall(w, v)
    \/ \E w \in Setters : SetLock(w)
    \/ \E w \in Setters : SetHigh(w)
    \/ \E w \in Setters : SetLow(w)
    \/ \E w \in Setters : SetUnlock(w)
    \/ ReadCall
    \/ ReadRLock
    \/ ReadWord0
    \/ ReadWord1
    \/ ReadRUnlock

SpecLock == Init /\ [][LockNext]_vars

\* ============================ a write followed by a read of the same place
\* values the writes store: one word, a run of equal words, a run of
\* different words
RoundTripVals == WriteVals \cup {0, 65535}
RoundTripWords(n) ==
    {Repeat(v, n) : v \in WriteVals} \cup {[i \in 1..n |-> 65535 - i]}

\* err := rm.Write...(a, values); require.NoError(t, err);
\* val, err := rm.Read...(a): w and r are what the two calls return, the
\* read being made on the map the write left
RoundTrip(op, address, values, w, r) ==
    /\ rtrip.n < MaxRequests
    /\ rtrip' = [n |-> rtrip.n + 1, op |-> op, addr |-> address,
                 vals |-> values, werr |-> w.err,
                 rerr |-> ~w.err /\ r.err,
                 data |-> IF w.err THEN <<>> ELSE r.data]
    /\ hrm' = w.rm
    /\ UNCHANGED <<hstats, hresp, mresp, packetLossRate>>
    /\ UNCHANGED <<slaveVars, threadVars, clientVars, engineVars, semVars,
                   fleetVars, tickVars, lockVars, unitAssign, utilVars>>

RoundTripNext ==
    \/ \E a \in MapAddrs, v \in RoundTripVals :
          LET w == WriteHoldingRegister(hrm, a, v) IN
          RoundTrip("HoldingRegister", a, <<v>>, w,
                    ReadHoldingRegister(w.rm, a))
    \/ \E a \in MapAddrs, n \in MapCounts : \E vs \in RoundTripWords(n) :
          LET w == WriteHoldingRegisters(hrm, a, vs) IN
          RoundTrip("HoldingRegisters", a, vs, w,
                    ReadHoldingRegisters(w.rm, a, Len(vs)))
    \/ \E a \in MapAddrs, b \in BOOLEAN :
          LET w == WriteCoil(hrm, a, b) IN
          RoundTrip("Coil", a, <<b>>, w, ReadCoil(w.rm, a))

SpecRoundTrip == Init /\ [][RoundTripNext]_vars

\* ========================================= unit ids of Engine.Start
\* config.Slaves.UnitIDStart is a uint8 that Config.Validate does not check
UnitIDStarts == 0..255
SlaveIndexes == 0..MaxSlaveIndex
\* Go's %: the remainder has the sign of the dividend
GoRem(a, b) == IF a >= 0 THEN a % b ELSE 0 - ((0 - a) % b)
\* uint8(x)
Uint8(x) == x % 256
\* unitID := uint8((int(e.config.Slaves.UnitIDStart) + idx - 1) % 255 + 1)
UnitIDOf(start, idx) == Uint8(GoRem(start + idx - 1, 255) + 1)

\* the start goroutine of index idx builds its SlaveConfig
AssignUnitID(start, idx) ==
    /\ idx \in SlaveIndexes
    /\ unitAssign' = [start |-> start, idx |-> idx,
                      unitID |-> UnitIDOf(start, idx), done |-> TRUE]
    /\ UNCHANGED <<slaveVars, threadVars, clientVars, engineVars, semVars,
                   fleetVars, handlerVars, tickVars, lockVars, rtrip, utilVars>>

\* for idx, ip := range ips: index 0 with the configuration that was
\* loaded, then the next index with the same configuration
UnitNext ==
    IF unitAssign.done
    THEN AssignUnitID(unitAssign.start, unitAssign.idx + 1)
    ELSE \E start \in UnitIDStarts : AssignUnitID(start, 0)

SpecUnit == Init /\ [][UnitNext]_vars

\* ------------------------------------------------------- IPRange.Expand
\* An IPv4 address is net.IP after To4(): four bytes, most significant first.
\* CIDR strings are addr/(32 - h) with h host bits.
CIDRAddrs ==
    {<<192, 168, 1, 0>>, <<192, 168, 1, 5>>, <<10, 0, 255, 250>>,
     <<255, 255, 255, 252>>, <<0, 0, 0, 0>>, <<172, 16, 0, 255>>}
HostBits == 0..MaxHostBits
\* Start and End strings that net.ParseIP accepts as IPv4
RangeAddrs ==
    {<<192, 168, 1, 10>>, <<192, 168, 1, 15>>, <<192, 168, 1, 254>>,
     <<192, 168, 2, 1>>, <<10, 0, 255, 255>>, <<10, 1, 0, 2>>,
     <<255, 255, 255, 254>>, <<0, 0, 0, 1>>}

\* host bits of the mask that fall into byte j
MaskBits(h, j) ==
    LET rest == h - 8 * (4 - j)
    IN  IF rest <= 0 THEN 0 ELSE IF rest >= 8 THEN 8 ELSE rest
\* ip.Mask(ipNet.Mask)
MaskIP(ip, h) == [j \in 1..4 |-> ip[j] - (ip[j] % (2 ^ MaskBits(h, j)))]
\* ipNet.Contains(ip)
Contains(net, h, ip) == MaskIP(ip, h) = net
\* incIP: ip[j]++ on a byte, from the last byte, until one does not wrap
RECURSIVE IncFrom(_, _)
IncFrom(ip, j) ==
    IF j < 1 THEN ip
    ELSE LET b == (ip[j] + 1) % 256
             next == [ip EXCEPT ![j] = b]
         IN  IF b > 0 THEN next ELSE IncFrom(next, j - 1)
incIP(ip) == IncFrom(ip, 4)
\* if len(ips) > 2 { ips = ips[1 : len(ips)-1] }
TrimEndsNever(ips) == ips
TrimEnds(ips) == IF Len(ips) > 2 THEN SubSeq(ips, 2, Len(ips) - 1) ELSE ips

ExpandFrame ==
    UNCHANGED <<slaveVars, threadVars, clientVars, engineVars, semVars,
                fleetVars, handlerVars, tickVars, lockVars, unitAssign, rtrip,
                pack, stat, jit>>

\* expandCIDR(cidr): net.ParseCIDR succeeds; ip := ip.Mask(ipNet.Mask)
ExpandCIDRCall(addr, h) ==
    /\ ipx.pc \in {"idle", "done"}
    /\ ipx' = [op |-> "cidr", pc |-> "loop", h |-> h,
               start |-> MaskIP(addr, h), end |-> addr,
               ip |-> MaskIP(addr, h), ips |-> <<>>]
    /\ ExpandFrame
\* loop body: ipNet.Contains(ip); append a copy of ip; incIP(ip)
ExpandCIDRStep ==
    /\ ipx.op = "cidr" /\ ipx.pc = "loop"
    /\ Contains(ipx.start, ipx.h, ipx.ip)
    /\ ipx' = [ipx EXCEPT !.ips = Append(@, ipx.ip), !.ip = incIP(@)]
    /\ ExpandFrame
\* loop exit, the two ends removed, return ips
ExpandCIDRReturn ==
    /\ ipx.op = "cidr" /\ ipx.pc = "loop"
    /\ ~Contains(ipx.start, ipx.h, ipx.ip)
    /\ ipx' = [ipx EXCEPT !.ips = TrimEnds(@), !.pc = "done"]
    /\ ExpandFrame

\* expandRange(start, end) on a range IPRange.Validate accepted: both
\* strings parse, nothing relates Start to End; ip := startIP
ExpandRangeCall(start, end) ==
    /\ ipx.pc \in {"idle", "done"}
    /\ ipx' = [op |-> "range", pc |-> "loop", h |-> 0, start |-> start,
               end |-> end, ip |-> start, ips |-> <<>>]
    /\ ExpandFrame
\* loop body: !ip.Equal(endIP); append a copy of ip; incIP(ip)
ExpandRangeStep ==
    /\ ipx.op = "range" /\ ipx.pc = "loop"
    /\ ipx.ip # ipx.end
    /\ Len(ipx.ips) < MaxExpand
    /\ ipx' = [ipx EXCEPT !.ips = Append(@, ipx.ip), !.ip = incIP(@)]
    /\ ExpandFrame
\* loop exit; append a copy of endIP; return ips
ExpandRangeReturn ==
    /\ ipx.op = "range" /\ ipx.pc = "loop"
    /\ ipx.ip = ipx.end
    /\ ipx' = [ipx EXCEPT !.ips = Append(@, ipx.end), !.pc = "done"]
    /\ ExpandFrame

ExpandNext ==
    \/ \E addr \in CIDRAddrs, h \in HostBits : ExpandCIDRCall(addr, h)
    \/ ExpandCIDRStep
    \/ ExpandCIDRReturn
    \/ \E start \in RangeAddrs, end \in RangeAddrs : ExpandRangeCall(start, end)
    \/ ExpandRangeStep
    \/ ExpandRangeReturn

SpecExpand == Init /\ [][ExpandNext]_vars

\* --------------------------------------------- CoilsToByte / ByteToCoils
\* slices are 0-based in the code, sequences 1-based here: element i of the
\* code is element i + 1
CoilSeqs == UNION {[1..n -> BOOLEAN] : n \in 0..MaxCoils}

\* 1 << (i % 8)
BitMaskMSB(i) == 2 ^ (7 - (i % 8))
BitMask(i) == 2 ^ (i % 8)
\* byte & mask != 0, for a mask of one bit
TestBit(byte, mask) == (byte \div mask) % 2 = 1
\* byte |= mask
OrBit(byte, mask) == IF TestBit(byte, mask) THEN byte ELSE byte + mask

\* the loop of CoilsToByte over coils[0..i-1], on bytes
RECURSIVE PackFrom(_, _, _)
PackFrom(coils, i, bytes) ==
    IF i >= Len(coils) THEN bytes
    ELSE PackFrom(coils, i + 1,
                  IF coils[i + 1]
                  THEN [bytes EXCEPT ![(i \div 8) + 1] = OrBit(@, BitMask(i))]
                  ELSE bytes)
\* bytes := make([]byte, (len(coils)+7)/8), then the loop
CoilsToByte(coils) ==
    PackFrom(coils, 0, [b \in 1..((Len(coils) + 7) \div 8) |-> 0])
\* coils[i] = (data[i/8] & (1 << (i % 8))) != 0 for i < count
ByteToCoils(data, count) ==
    [k \in 1..count |-> TestBit(data[((k - 1) \div 8) + 1], BitMask(k - 1))]

PackFrame ==
    UNCHANGED <<slaveVars, threadVars, clientVars, engineVars, semVars,
                fleetVars, handlerVars, tickVars, lockVars, unitAssign, rtrip,
                ipx, stat, jit>>

\* bytes := CoilsToByte(coils)
CoilsToByteCall(coils) ==
    /\ pack.pc = "idle"
    /\ pack' = [coils |-> coils, bytes |-> CoilsToByte(coils), back |-> <<>>,
                pc |-> "packed"]
    /\ PackFrame
\* ByteToCoils(bytes, len(coils))
ByteToCoilsCall ==
    /\ pack.pc = "packed"
    /\ pack' = [pack EXCEPT !.back = ByteToCoils(pack.bytes, Len(pack.coils)),
                            !.pc = "unpacked"]
    /\ PackFrame

PackNext ==
    \/ \E coils \in CoilSeqs : CoilsToByteCall(coils)
    \/ ByteToCoilsCall

SpecPack == Init /\ [][PackNext]_vars

\* ------------------------------------------------ SlaveStats, Engine.Stats
StatFrame ==
    UNCHANGED <<slaveVars, threadVars, clientVars, engineVars, semVars,
                fleetVars, handlerVars, tickVars, lockVars, unitAssign, rtrip,
                ipx, pack, jit>>

\* the arguments the handlers give recordRequest: (0, 0, true) on an error,
\* (8, 3 + byte count, false) on a read of up to 16 coils
RecordArgs ==
    {[bytesIn |-> 0, bytesOut |-> 0, hasError |-> TRUE],
     [bytesIn |-> 8, bytesOut |-> 5, hasError |-> FALSE]}

\* recordRequest begins with s.stats.RequestCount.Add(1)
FirstRecordPcError(hasError) == IF hasError THEN "err" ELSE "req"
FirstRecordPc(hasError) == "req"
\* then BytesReceived.Add, BytesSent.Add, and ErrorCount.Add(1) if hasError
NextRecordPc(at, hasError) ==
    CASE at = "req" -> "in"
      [] at = "in" -> "out"
      [] at = "out" -> IF hasError THEN "err" ELSE "idle"
      [] OTHER -> "idle"

\* a handler goroutine of a slave of the fleet calls h.slave.recordRequest
RecordCall(h, o, a) ==
    /\ stat.rec[h].pc = "idle"
    /\ o \in stat.emap
    /\ stat.nrec < MaxRequests
    /\ stat' = [stat EXCEPT
                  !.nrec = @ + 1,
                  !.rec[h] = [pc |-> FirstRecordPc(a.hasError), obj |-> o,
                              bytesIn |-> a.bytesIn, bytesOut |-> a.bytesOut,
                              hasError |-> a.hasError]]
    /\ StatFrame
\* the next atomic Add of recordRequest (LastRequestTime.Store is left out)
RecordStep(h) ==
    LET r == stat.rec[h]
        o == r.obj
    IN
    /\ r.pc # "idle"
    /\ stat' = [stat EXCEPT
                  !.cnt[o] =
                      CASE r.pc = "req" -> [@ EXCEPT !.RequestCount = @ + 1]
                        [] r.pc = "in" ->
                             [@ EXCEPT !.BytesReceived = @ + r.bytesIn]
                        [] r.pc = "out" ->
                             [@ EXCEPT !.BytesSent = @ + r.bytesOut]
                        [] OTHER -> [@ EXCEPT !.ErrorCount = @ + 1],
                  !.rec[h] = IF NextRecordPc(r.pc, r.hasError) = "idle"
                             THEN NoRecord
                             ELSE [r EXCEPT !.pc =
                                       NextRecordPc(r.pc, r.hasError)]]
    /\ StatFrame

\* Engine.Start: a new run, with fresh Slave objects
StatEngineStart ==
    /\ ~stat.up
    /\ stat.made < MaxRuns
    /\ stat' = [stat EXCEPT !.up = TRUE, !.made = @ + 1]
    /\ StatFrame
\* a start goroutine: e.mu.Lock(); e.slaves[slave.ID] = slave
StatSlaveStarted(i) ==
    /\ stat.up
    /\ stat.rd.pc = "idle"
    /\ Obj(stat.made, i) \notin stat.emap
    /\ stat' = [stat EXCEPT !.emap = @ \cup {Obj(stat.made, i)}]
    /\ StatFrame
\* Engine.Stop: e.mu.Lock(); e.slaves = make(map[string]*Slave)
StatEngineStop ==
    /\ stat.up
    /\ stat.rd.pc = "idle"
    /\ stat' = [stat EXCEPT !.emap = {}, !.up = FALSE]
    /\ StatFrame

\* Engine.Stats: e.mu.RLock(); stats := e.stats
StatsBegin ==
    /\ stat.rd.pc = "idle"
    /\ stat' = [stat EXCEPT !.rd = [pc |-> "loop", todo |-> stat.emap,
                                    cur |-> 0, fld |-> 0, acc |-> ZeroTotals]]
    /\ StatFrame
\* for _, slave := range e.slaves: the next slave, in any order
StatsPick(o) ==
    /\ stat.rd.pc = "loop" /\ stat.rd.cur = 0
    /\ o \in stat.rd.todo
    /\ stat' = [stat EXCEPT !.rd.todo = @ \ {o}, !.rd.cur = o, !.rd.fld = 1]
    /\ StatFrame
\* stats.X += slaveStats.Y.Load(), one field after the other
StatsLoad ==
    LET c == stat.cnt[stat.rd.cur]
        f == stat.rd.fld
    IN
    /\ stat.rd.pc = "loop" /\ stat.rd.cur # 0
    /\ stat' = [stat EXCEPT
                  !.rd.acc =
                      CASE f = 1 -> [@ EXCEPT !.TotalRequests =
                                                  @ + c.RequestCount]
                        [] f = 2 -> [@ EXCEPT !.TotalErrors = @ + c.ErrorCount]
                        [] f = 3 -> [@ EXCEPT !.BytesReceived =
                                                  @ + c.BytesReceived]
                        [] OTHER -> [@ EXCEPT !.BytesSent = @ + c.BytesSent],
                  !.rd.fld = IF f = 4 THEN 0 ELSE f + 1,
                  !.rd.cur = IF f = 4 THEN 0 ELSE @]
    /\ StatFrame
\* return stats (defer e.mu.RUnlock())
StatsReturn ==
    /\ stat.rd.pc = "loop" /\ stat.rd.cur = 0 /\ stat.rd.todo = {}
    /\ stat' = [stat EXCEPT !.prev = stat.last, !.last = stat.rd.acc,
                            !.nstats = IF @ < 2 THEN @ + 1 ELSE @,
                            !.rd = NoStatsRead]
    /\ StatFrame

StatNext ==
    \/ \E h \in Handlers, o \in StatObjs, a \in RecordArgs : RecordCall(h, o, a)
    \/ \E h \in Handlers : RecordStep(h)
    \/ StatEngineStart
    \/ \E i \in 1..NSlaves : StatSlaveStarted(i)
    \/ StatEngineStop
    \/ StatsBegin
    \/ \E o \in StatObjs : StatsPick(o)
    \/ StatsLoad
    \/ StatsReturn

SpecStats == Init /\ [][StatNext]_vars

\* ------------------------------------- JitterScenario and applyJitter
\* jitter_min / jitter_max of the scenario's params, in ms (0 = not set)
JitterMs == {0, 100, 300, 600}
\* the voltage the Normal part of the update draws
JitterVoltage == CHOOSE v \in VoltageRaws : TRUE

\* JitterScenario.Update(registers, params) on the registered handler
JitterUpdate(jmin, jmax) ==
    /\ ~jit.panicked
    /\ scenarioHandlers' =
          UpdateHead(scenarioHandlers, ScenarioJitter,
                     [NoParams EXCEPT !.JitterMin = jmin, !.JitterMax = jmax],
                     JitterVoltage, clock.now)
    /\ UNCHANGED <<clock, points, memory, tick, seen, sagCall, jit>>
    /\ UNCHANGED <<slaveVars, threadVars, clientVars, engineVars, semVars,
                   fleetVars, handlerVars, lockVars, unitAssign, rtrip,
                   ipx, pack, stat>>
\* the published range is forwarded: min, max := handler.GetJitterRange();
\* h.SetJitter(true, min, max)
SetJitter ==
    /\ ~jit.panicked
    /\ scenarioHandlers.jitter.normalScenario.baseVoltage # 0
    /\ jit' = [jit EXCEPT !.jitterEnabled = TRUE,
                          !.jitterMin = scenarioHandlers.jitter.jitterMin,
                          !.jitterMax = scenarioHandlers.jitter.jitterMax,
                          !.applied = FALSE, !.delay = 0]
    /\ UNCHANGED <<slaveVars, threadVars, clientVars, engineVars, semVars,
                   fleetVars, handlerVars, tickVars, lockVars, unitAssign,
                   rtrip, ipx, pack, stat>>
\* rand.Int63n(n): panics if n <= 0, else a value of [0, n)
Int63nPanics(n) == n <= 0
Int63nDraws(n) == {0, n \div 2, n - 1}
\* applyJitter at the head of a request
applyJitter ==
    LET n == jit.jitterMax - jit.jitterMin IN
    /\ ~jit.panicked
    /\ jit.jitterEnabled
    /\ IF Int63nPanics(n)
       THEN jit' = [jit EXCEPT !.panicked = TRUE]
       ELSE \E r \in Int63nDraws(n) :
               jit' = [jit EXCEPT !.applied = TRUE, !.delay = jit.jitterMin + r]
    /\ UNCHANGED <<slaveVars, threadVars, clientVars, engineVars, semVars,
                   fleetVars, handlerVars, tickVars, lockVars, unitAssign,
                   rtrip, ipx, pack, stat>>

JitterNext ==
    \/ \E jmin \in JitterMs, jmax \in JitterMs : JitterUpdate(jmin, jmax)
    \/ SetJitter
    \/ applyJitter

SpecJitter == Init /\ [][JitterNext]_vars

\* ======================================================= claims C1 - C6
ErrorRets == {"err_running", "err_listen"}

\* C1: on a running slave, an FC 03 read of offset 100 returns the value of
\* the last successful FC 06 write to it, and an FC 01 read of coil 0 the
\* value of the last FC 05 write, whatever scenario ticks ran in between.
C1_ReadBack ==
    \A s \in TestSlaves :
        /\ (state[s] = SlaveStateRunning /\ resp.fc = 3 /\ resp.addr = 100
              /\ lastWrite[s].h # -1)
           => resp.val = lastWrite[s].h
        /\ (state[s] = SlaveStateRunning /\ resp.fc = 1 /\ resp.addr = 0
              /\ lastWrite[s].c # -1)
           => resp.val = lastWrite[s].c

\* C2: the state of a slave changes only along Stopped -> Starting ->
\* Running -> Stopping -> Stopped, or Starting -> Stopped when the bind
\* of that Start failed.
AllowedTransitions ==
    {<<SlaveStateStopped, SlaveStateStarting>>,
     <<SlaveStateStarting, SlaveStateRunning>>,
     <<SlaveStateRunning, SlaveStateStopping>>,
     <<SlaveStateStopping, SlaveStateStopped>>,
     <<SlaveStateStarting, SlaveStateStopped>>}
C2_Transitions ==
    [][\A s \in Slaves :
         /\ state'[s] # state[s] => <<state[s], state'[s]>> \in AllowedTransitions
         /\ (state[s] = SlaveStateStarting /\ state'[s] = SlaveStateStopped)
            => \E t \in Threads : /\ target[t] = s
                                  /\ pc[t] = "start_listen"
                                  /\ ret'[t] = "err_listen"]_vars
\* a Start call races with a Stop that is between its CAS and its Store,
\* on a slave that has run
C2_Witness ==
    \E t1, t2 \in Callers :
        /\ pc[t1] = "stop_store" /\ pc[t2] = "start_call"
        /\ target[t1] = target[t2]
        /\ state[target[t1]] = SlaveStateStopping

\* C3: at most one Start call of a slave is past the Stopped -> Starting
\* transition at any time, and a Start that finds the slave Starting, Running
\* or Stopping returns an error and changes neither state, listener nor ticker.
StartersPast(s) ==
    {t \in Threads : target[t] = s /\ pc[t] \in {"start_listen", "start_spawn"}}
C3_SingleStarter ==
    /\ [](\A s \in Slaves : Cardinality(StartersPast(s)) <= 1)
    /\ [][\A t \in Threads :
            (pc[t] = "start_call" /\ pc'[t] # "start_call"
               /\ state[target[t]] # SlaveStateStopped)
            => /\ ret'[t] = "err_running"
               /\ pc'[t] = RetPc(t)
               /\ state' = state /\ listening' = listening /\ server' = server
               /\ tickerPc' = tickerPc /\ scenarioCtx' = scenarioCtx
               /\ cancelled' = cancelled /\ nStarts' = nStarts]_vars
\* one Start is binding while a concurrent Start has been refused
C3_Witness ==
    \E t1, t2 \in Callers :
        /\ pc[t1] = "start_listen"
        /\ pc[t2] = "idle" /\ lastOp[t2] = "Start" /\ ret[t2] = "err_running"
        /\ target[t1] = target[t2]

\* C4: when the bind fails, Start returns an error, the slave is Stopped
\* again, no ticker was spawned, and the CAS of a later Start passes.
C4_BindFailure ==
    [][\A t \in Threads :
         (pc[t] = "start_listen" /\ pc'[t] \notin {"start_listen", "start_spawn"})
         => LET s == target[t] IN
            /\ ret'[t] = "err_listen"
            /\ pc'[t] = RetPc(t)
            /\ state'[s] = SlaveStateStopped
            /\ ~listening'[s]
            /\ tickerPc'[s] = tickerPc[s]
            /\ nStarts'[s] = nStarts[s]
            /\ scenarioCtx'[s] = scenarioCtx[s]
            /\ StartCASGuard(s)']_vars
\* a Start failed to bind, and a later Start of the same slave succeeded
C4_Witness ==
    \E t1, t2 \in Callers :
        /\ t1 # t2 /\ target[t1] = target[t2]
        /\ pc[t1] = "idle" /\ lastOp[t1] = "Start" /\ ret[t1] = "err_listen"
        /\ pc[t2] = "idle" /\ lastOp[t2] = "Start" /\ ret[t2] = "nil"
        /\ state[target[t1]] = SlaveStateRunning
        /\ nStarts[target[t1]] = 1

\* C5 (as claimed): Stop on a slave that is not Running changes neither
\* state, ticker nor listener, and reports an error to the caller.
C5_StopNoOpError ==
    [][\A t \in Threads :
         (pc[t] = "stop_call" /\ pc'[t] # "stop_call"
            /\ state[target[t]] # SlaveStateRunning)
         => /\ ret'[t] \in ErrorRets
            /\ pc'[t] = RetPc(t)
            /\ state' = state /\ listening' = listening /\ server' = server
            /\ tickerPc' = tickerPc /\ scenarioCtx' = scenarioCtx
            /\ cancelled' = cancelled]_vars
\* C5 (amended): Stop on a slave that is not Running changes neither
\* state, ticker nor listener, and returns nil.
C5_StopNoOpNil ==
    [][\A t \in Threads :
         (pc[t] = "stop_call" /\ pc'[t] # "stop_call"
            /\ state[target[t]] # SlaveStateRunning)
         => /\ ret'[t] = "nil"
            /\ pc'[t] = RetPc(t)
            /\ state' = state /\ listening' = listening /\ server' = server
            /\ tickerPc' = tickerPc /\ scenarioCtx' = scenarioCtx
            /\ cancelled' = cancelled]_vars
\* a Stop has returned on a slave that never ran and is being started
C5_Witness ==
    \E t \in Callers :
        /\ pc[t] = "idle" /\ lastOp[t] = "Stop" /\ ret[t] = "nil"
        /\ nStarts[target[t]] = 0
        /\ state[target[t]] = SlaveStateStarting

\* C6: once Stop has returned on a slave that ran (the slave is Stopped),
\* its ticker context is cancelled and no step changes its register map or
\* its server's register memory.
C6_NoTickAfterStop ==
    [][\A s \in Slaves :
         (state[s] = SlaveStateStopped /\ nStarts[s] > 0)
         => /\ CtxDone(s)
            /\ registers'[s] = registers[s]
            /\ server'[s] = server[s]]_vars


\* ====================================================== claims C7 - C10
StartedOk == {t \in StartGos : ret[t] = "nil"}

\* C7: when Engine.Start returns after its goroutines have finished: if a
\* slave start succeeded the engine is Running, the result is nil and the
\* fleet is exactly the slaves whose start succeeded; otherwise the engine
\* is Stopped and the result is the first slave error.
C7_StartOutcome ==
    [][(enginePc = "start_wait" /\ enginePc' = "idle")
       => IF StartedOk # {}
          THEN /\ engineState' = EngineStateRunning
               /\ engineRet' = [op |-> "Start", err |-> 0]
               /\ Fleet' = {target[t] : t \in StartedOk}
          ELSE /\ engineState' = EngineStateStopped
               /\ engineRet'.op = "Start"
               /\ engineRet'.err = errChan[1]
               /\ engineRet'.err \in {t[2] : t \in StartGos}
               /\ Fleet' = {}]_vars
\* Start has returned nil after one slave bound and another failed
C7_Witness ==
    /\ enginePc = "idle"
    /\ engineRet = [op |-> "Start", err |-> 0]
    /\ engineState = EngineStateRunning
    /\ Cardinality(Fleet) = 1
    /\ Len(errChan) >= 1

\* C8: Engine.Stop on a Running engine returns: the return is possible as
\* soon as the deadline has expired, it happens only after every slave stop
\* has completed or the deadline has expired, and it leaves the engine Stopped.
C8_StopReturns ==
    /\ (enginePc = "stop_wait") ~> (enginePc = "idle")
    /\ []((enginePc = "stop_wait" /\ stopCtxDone) => ENABLED EngineStopJoin)
    /\ [][(enginePc = "stop_wait" /\ enginePc' = "idle")
          => /\ StopAllDone \/ stopCtxDone
             /\ engineState' = EngineStateStopped
             /\ engineRet' = [op |-> "Stop", err |-> 0]]_vars
\* Stop has returned on the deadline while slave stops are pending
C8_Witness ==
    /\ enginePc = "idle"
    /\ engineRet = [op |-> "Stop", err |-> 0]
    /\ engineState = EngineStateStopped
    /\ stopCtxDone
    /\ ~StopAllDone

\* C9: when Engine.Stop has returned and the engine is Stopped, no slave
\* the engine started is Running or Stopping.
C9_NoSlaveOutlives ==
    (enginePc = "idle" /\ engineRet.op = "Stop" /\ engineState = EngineStateStopped)
    => \A s \in Slaves : state[s] \notin {SlaveStateRunning, SlaveStateStopping}

\* C10: at most 100 slave Start calls of an Engine.Start, and at most 100
\* slave Stop calls of an Engine.Stop, are in flight at any instant.
C10_BoundedParallelism == semInFlight <= 100
\* all 100 slots are taken and a further goroutine waits, in a Start and
\* in a Stop
C10_Witness ==
    /\ semPhase = "stopping"
    /\ semInFlight = 100
    /\ semWaiting > 0

\* ===================================================== claims C11 - C13
\* C11: once Engine.ApplyScenario(t) has returned, GetScenario() is t and
\* every slave of the fleet has scenario t, also the slaves an Engine.Start
\* registers while the call runs or after it.
C11_ScenarioEverywhere ==
    applyPc = "returned"
    => /\ GetScenario = applyArg
       /\ \A s \in Fleet : scenario[s] = applyArg

\* C12: whenever no Start or Stop is in progress, Stats().active_slaves is
\* the number of fleet slaves that are Running and Stats().slave_count is
\* the number of slaves in the fleet.
C12_StatsMatchFleet ==
    enginePc = "idle"
    => /\ Stats.active_slaves =
            Cardinality({s \in Fleet : state[s] = SlaveStateRunning})
       /\ Stats.slave_count = Cardinality(Fleet)

\* C13: once the ctx of an Engine.Start in progress is cancelled, no slave
\* of that Start enters Starting, and its slaves that are Running stay
\* Running.
C13_CancelAborts ==
    [][\A s \in Slaves :
         (enginePc = "start_wait" /\ RunOf(s) = run /\ startCtxDone[run])
         => /\ (state'[s] = SlaveStateStarting => state[s] = SlaveStateStarting)
            /\ (state[s] = SlaveStateRunning => state'[s] = SlaveStateRunning)]_vars

\* ===================================================== claims C14 - C20
\* C14 (as claimed): a RegisterMap read or write of n points at start
\* address a with a + n > S fails, in every address space of size S; so a
\* holding-register access at any address a >= S fails.
C14_OutOfRangeFails ==
    (mresp.n > 0 /\ mresp.addr + mresp.qty > SpaceSize) => mresp.err

\* C14 (amended): the access fails when i + n > S, where i is a - 40001 for
\* a holding-register address a >= 40001 and a otherwise; a holding access
\* at an address a >= 40001 with a - 40001 + n <= S succeeds.
C14_IndexOutOfRangeFails ==
    mresp.n > 0 =>
        LET i == IF mresp.space = "holding" /\ mresp.addr >= 40001
                 THEN mresp.addr - 40001 ELSE mresp.addr
        IN /\ (i + mresp.qty > SpaceSize => mresp.err)
           /\ (mresp.space = "holding" /\ mresp.addr >= 40001
                  /\ i + mresp.qty <= SpaceSize) => ~mresp.err
\* a bulk holding-register access through a 40001-based address that runs
\* past the end of the space has failed
C14_Witness ==
    /\ mresp.op \in {"ReadHoldingRegisters", "WriteHoldingRegisters"}
    /\ mresp.addr > 40001
    /\ mresp.addr - 40001 < SpaceSize
    /\ mresp.addr - 40001 + mresp.qty > SpaceSize
    /\ mresp.err

\* C15: a read request (FC 01-04) that is not dropped, with quantity 0, or
\* above 2000 for coils / discrete inputs, or above 125 for holding / input
\* registers, is answered with exception 0x03 and no data, at any address.
C15_QuantityException ==
    (/\ hresp.n > 0
     /\ ~WasDropped(hresp)
     /\ hresp.fc \in 1..4
     /\ \/ hresp.qty = 0
        \/ hresp.fc \in {1, 2} /\ hresp.qty > 2000
        \/ hresp.fc \in {3, 4} /\ hresp.qty > 125)
    => (hresp.err = "exception" /\ hresp.code = 3 /\ ~hresp.hasData)

\* C16: an FC 06 write that targets LineVoltage (holding offset 0), sent as
\* user address 40001 or as wire offset 0, and an FC 05 write to an address
\* defined writable = false, is answered with exception 0x02 and leaves the
\* RegisterMap unchanged.
C16_ReadOnlyRefused ==
    [][(/\ hresp'.n = hresp.n + 1
        /\ ~WasDropped(hresp')
        /\ \/ hresp'.fc = 6 /\ hresp'.addr \in {0, 40001}
           \/ hresp'.fc = 5 /\ hresp'.addr \in DOMAIN hrm.definitions)
       => (/\ hresp'.err = "exception"
           /\ hresp'.code = 2
           /\ hrm' = hrm)]_vars

\* C17: a request whose unit id is neither the slave's unit id nor 0 gets
\* no response and changes no register.
C17_UnitFilter ==
    [][(hresp'.n = hresp.n + 1 /\ hresp'.unit \notin {DefaultUnitID, 0})
       => (/\ hrm' = hrm
           /\ ~hresp'.hasData
           /\ hresp'.err = "nil")]_vars

C19_ErrorsCounted ==
    [][hresp'.n = hresp.n + 1
       => hstats'.ErrorCount = hstats.ErrorCount
            + (IF hresp'.err # "nil" \/ WasDropped(hresp') THEN 1 ELSE 0)]_vars

\* C20: a completed request adds one to requests, the request ADU size
\* (7 + PDU length: 12 for FC 01-06) to bytes_in and the response ADU size
\* (9 + 2 x qty for FC 03/04, 9 + ceil(qty / 8) for FC 01/02, 12 for
\* FC 05/06/15/16) to bytes_out.
C20_WireByteCounters ==
    [][(hresp'.n = hresp.n + 1 /\ ~WasDropped(hresp') /\ hresp'.err = "nil")
       => LET q == hresp'
              bytesIn == IF q.fc = 15 THEN 13 + (q.qty + 7) \div 8
                         ELSE IF q.fc = 16 THEN 13 + 2 * q.qty
                         ELSE 12
              bytesOut == IF q.fc \in {1, 2} THEN 9 + (q.qty + 7) \div 8
                          ELSE IF q.fc \in {3, 4} THEN 9 + 2 * q.qty
                          ELSE 12
          IN /\ hstats'.RequestCount = hstats.RequestCount + 1
             /\ hstats'.BytesReceived = hstats.BytesReceived + bytesIn
             /\ hstats'.BytesSent = hstats.BytesSent + bytesOut]_vars

\* ===================================================== claims C21 - C30
\* a tick of slave s has run to its end
TickDone(s) == tick[s].pc = "select" /\ tick[s].n > 0

\* C21: after each scenario tick of a slave, the link knobs of that slave's
\* protocol engine equal those published by the scenario the tick ran: the
\* Jitter handler's range with jitter enabled, the PacketLoss handler's rate,
\* and disabled / zero under Normal and VoltageSag.
C21_KnobsFollowScenario ==
    \A s \in TickSlaves :
        TickDone(s) => LinkKnobs(s) = PublishedKnobs(tick[s].scn)

\* C22: every tick of a running slave that begins after Slave.ApplyScenario(t)
\* has returned, and before the next ApplyScenario returns, runs the handler
\* of t, whatever state the slave was in when the scenario was applied.
C22_NextTickRunsApplied ==
    \A s \in TickSlaves :
        (tick[s].pc \in {"update", "rest", "sag", "sync", "copy"}
           /\ ~tick[s].applied)
        => /\ state[s] = SlaveStateRunning
           /\ tick[s].scn = scenario[s]
\* the second tick of a slave runs the VoltageSag handler, which was
\* applied after its first tick had run the Jitter handler
C22_Witness ==
    \E s \in TickSlaves :
        /\ tick[s].pc = "rest" /\ ~tick[s].applied /\ tick[s].first
        /\ tick[s].n = 2
        /\ scenarioHandlers.jitter.jitterMax > 0
        /\ tick[s].scn = ScenarioVoltageSag

\* C23: when a slave's scenario is switched to Normal (between two ticks),
\* the scenario state of the slave is reset: its points are back at the
\* baseline and the VoltageSag start time is cleared.
C23_NormalImpliesReset ==
    [][\A s \in TickSlaves :
         (scenario[s] # ScenarioNormal /\ scenario'[s] = ScenarioNormal
            /\ tick[s].pc = "select")
         => /\ points'[s] = BaselinePoints
            /\ IsZero(scenarioHandlers'.voltage_sag.startTime)]_vars

\* C24: for a VoltageSag handler, every update from the first one of a
\* window until duration D has elapsed leaves voltage <= 220 x sag_factor x
\* 1.01 (sag_factor = 1 - voltage_variance, 0.8 when that is outside (0,1));
\* every update after D has elapsed leaves the voltage in the Normal
\* envelope; the window opens at the first update and at the first update
\* after each Reset.
C24_SagWindow ==
    sagCall.op = "Update"
    => LET x == 1000 - sagCall.params.VoltageVariance
           f == IF x > 0 /\ x < 1000 THEN x ELSE 800
           D == IF sagCall.params.Duration = 0 THEN 10
                ELSE sagCall.params.Duration
           voltage == points[SagSlave].voltage
       IN IF sagCall.at - sagCall.start < D
          THEN voltage * 100000 <= 2200 * f * 101
          ELSE voltage >= 2189 /\ voltage <= 2211
\* an update inside the window that the first update after a Reset opened,
\* the window before it having elapsed
C24_Witness ==
    /\ sagCall.op = "Update"
    /\ sagCall.start >= 10
    /\ sagCall.at > sagCall.start
    /\ sagCall.at - sagCall.start < 10
    /\ sagCall.params.Duration = 0
    /\ sagCall.params.VoltageVariance = 500
    /\ points[SagSlave].voltage < 1200

\* C25: the first tick of a running slave that begins after VoltageSag
\* (voltage_variance 0.2) was applied to it leaves holding offset 0 with a
\* raw value <= 1800, whatever ran before.
C25_FirstSagTickSags ==
    \A s \in TickSlaves :
        (TickDone(s) /\ tick[s].first /\ ~tick[s].applied
           /\ tick[s].scn = ScenarioVoltageSag)
        => memory[s].voltage <= 1800

\* C26: TotalEnergy (40004) of a slave never decreases from one tick to the
\* next, switches between scenarios included.
C26_EnergyMonotone ==
    \A s \in TickSlaves :
        TickDone(s) => points[s].energy >= tick[s].pre.energy

\* C27: a bulk read of the two words of a Uint32 point that runs
\* concurrently with SetScaledValue calls returns both words of one written
\* value.
C27_NoTornRead ==
    readPc = "done"
    => \E v \in written : readBuf = <<HighWord(v), LowWord(v)>>
\* a read returned the value of the second write while another
\* SetScaledValue call waits for the lock or holds it
C27_Witness ==
    /\ readPc = "done"
    /\ readBuf = <<HighWord(196612), LowWord(196612)>>
    /\ written = {0, 65538, 196612}
    /\ \E w \in Setters : setPc[w] \in {"lock", "high", "low"}

\* C28: a client read that ran while a tick was in progress returned the
\* points either all as they were before the tick or all as they are after
\* it.
C28_ReadSeesWholeTick ==
    \A s \in TickSlaves :
        (TickDone(s) /\ seen[s].read)
        => seen[s].val \in {tick[s].pre, points[s]}

\* C29: a successful WriteHoldingRegister(a, v) followed by
\* ReadHoldingRegister(a) returns v, a successful WriteHoldingRegisters(a, vs)
\* followed by ReadHoldingRegisters(a, |vs|) returns vs, and a successful
\* WriteCoil(a, b) followed by ReadCoil(a) returns b.
C29_RoundTrip ==
    (rtrip.n > 0 /\ ~rtrip.werr) => (~rtrip.rerr /\ rtrip.data = rtrip.vals)
\* different words written at 40001 and read back, over words that an
\* earlier write had stored there
C29_Witness ==
    /\ rtrip.n > 1 /\ ~rtrip.werr
    /\ rtrip.op = "HoldingRegisters"
    /\ rtrip.addr = HoldingBase
    /\ Len(rtrip.vals) = SpaceSize
    /\ rtrip.data[1] # rtrip.data[2]
    /\ hrm.holdingRegisters[0] = rtrip.data[1]

\* C30: the slave created at index i gets unit id
\* ((unit_id_start - 1 + i) mod 255) + 1, which lies in [1, 255], for every
\* unit_id_start the configuration accepts.
C30_UnitIDInRange ==
    unitAssign.done
    => /\ unitAssign.unitID = ((unitAssign.start - 1 + unitAssign.idx) % 255) + 1
       /\ unitAssign.unitID \in 1..255

\* ------------------------------------------------------------ C31 .. C40
\* address number k of the block that starts at net (h <= 8: the host bits
\* lie in the last byte, and net's are zero)
HostAddr(net, k) == [net EXCEPT ![4] = @ + k]
ExpandedCIDR == ipx.op = "cidr" /\ ipx.pc = "done"
ExpandedRange == ipx.op = "range" /\ ipx.pc = "done"

IPLeq(a, b) ==
    \/ a = b
    \/ \E j \in 1..4 : a[j] < b[j] /\ \A i \in 1..(j - 1) : a[i] = b[i]
BroadcastAll == <<255, 255, 255, 255>>

\* C32: expanding a Start-End range that Validate accepts returns exactly
\* the addresses from Start to End inclusive, ascending with carry, and no
\* address outside [Start, End].
C32_RangeExact ==
    ExpandedRange
    => /\ ipx.ips[1] = ipx.start
       /\ ipx.ips[Len(ipx.ips)] = ipx.end
       /\ \A k \in 1..(Len(ipx.ips) - 1) :
              ipx.ips[k] # BroadcastAll /\ ipx.ips[k + 1] = incIP(ipx.ips[k])
       /\ \A k \in 1..Len(ipx.ips) :
              IPLeq(ipx.start, ipx.ips[k]) /\ IPLeq(ipx.ips[k], ipx.end)

\* C33: coil packing is LSB-first and lossless: CoilsToByte(c) has
\* ceil(|c|/8) bytes, coil i is bit (i mod 8) of byte floor(i/8), unused
\* bits are 0, and ByteToCoils(CoilsToByte(c), |c|) = c.
C33_PackingLossless ==
    /\ pack.pc # "idle"
       => /\ Len(pack.bytes) * 8 >= Len(pack.coils)
          /\ Len(pack.bytes) * 8 < Len(pack.coils) + 8
          /\ \A b \in 1..Len(pack.bytes) :
                 /\ pack.bytes[b] \in 0..255
                 /\ \A k \in 0..7 :
                        LET i == 8 * (b - 1) + k
                        IN  ((pack.bytes[b] \div (2 ^ k)) % 2 = 1)
                            <=> (i < Len(pack.coils) /\ pack.coils[i + 1])
    /\ pack.pc = "unpacked" => pack.back = pack.coils

\* nine coils, the first and the last set, went through both conversions
C33_Witness ==
    /\ pack.pc = "unpacked"
    /\ Len(pack.coils) = 9 /\ pack.coils[1] /\ pack.coils[9] /\ ~pack.coils[2]
    /\ pack.bytes = <<1, 1>>

\* the runScenarioUpdater goroutines of s that have not returned
LiveTickers(s) == {g \in Gens : tickerPc[s][g] \notin {"none", "done"}}

\* C34: for any sequence of Start and Stop calls on one slave, at most one
\* scenario ticker of the slave is active: while the slave's ticker context
\* is not done (so that every live ticker goroutine goes on ticking), at
\* most one such goroutine is live.
C34_SingleTicker ==
    \A s \in Slaves : ~CtxDone(s) => Cardinality(LiveTickers(s)) <= 1

\* C35: in every state in which a slave is Running, the ticker goroutine
\* its Start spawned has not returned, whatever happens to the context
\* that was passed to Start.
C35_RunningHasTicker ==
    \A s \in Slaves :
        state[s] = SlaveStateRunning => tickerPc[s][scenarioCtx[s]] # "done"

\* the step is a call of the RegisterMap method op
MapStep(op) == mresp'.n = mresp.n + 1 /\ mresp'.op = op
\* the other three address spaces are as they were
OtherSpacesKept ==
    /\ hrm'.coils = hrm.coils
    /\ hrm'.discreteInputs = hrm.discreteInputs
    /\ hrm'.inputRegisters = hrm.inputRegisters
FailedWriteKeepsAll ==
    (/\ MapStep("WriteHoldingRegister") \/ MapStep("WriteHoldingRegisters")
     /\ mresp'.err)
    => hrm' = hrm

\* C36 as stated: a successful WriteHoldingRegister(a, v) leaves the result
\* of ReadHoldingRegister(b) as it was for every address b # a, and leaves
\* coils, discrete inputs and input registers unchanged; a failed single or
\* bulk write changes nothing.
C36_WriteFrameByAddress ==
    [][/\ (MapStep("WriteHoldingRegister") /\ ~mresp'.err)
          => /\ \A b \in MapAddrs :
                    b # mresp'.addr
                    => ReadHoldingRegister(hrm', b).data
                       = ReadHoldingRegister(hrm, b).data
             /\ OtherSpacesKept
       /\ FailedWriteKeepsAll]_vars

\* C36 amended: that holds for every address b that does not denote the
\* register a denotes (40001 + i and i denote the same register).
C36_WriteFrameByRegister ==
    [][/\ (MapStep("WriteHoldingRegister") /\ ~mresp'.err)
          => /\ \A b \in MapAddrs :
                    (b # mresp'.addr /\ b # mresp'.addr - 40001
                       /\ b # mresp'.addr + 40001)
                    => /\ ReadHoldingRegister(hrm', b).data
                          = ReadHoldingRegister(hrm, b).data
                       /\ ReadHoldingRegister(hrm', b).err
                          = ReadHoldingRegister(hrm, b).err
             /\ OtherSpacesKept
       /\ FailedWriteKeepsAll]_vars

\* a single write through a 40001-based address succeeded and changed the
\* register, next to another register holding a different value
C36_Witness ==
    /\ mresp.op = "WriteHoldingRegister" /\ ~mresp.err
    /\ mresp.addr = 40002
    /\ hrm.holdingRegisters[1] = 7
    /\ hrm.holdingRegisters[0] = 2200

\* C37: for every slave, in every state and under any interleaving of
\* request handlers and stats readers, the errors counter is at most the
\* requests counter, and no step decreases a counter of the slave.
C37_ErrorsWithinRequests ==
    [][\A o \in StatObjs :
         /\ stat.cnt[o].ErrorCount <= stat.cnt[o].RequestCount
         /\ stat'.cnt[o].ErrorCount <= stat'.cnt[o].RequestCount
         /\ stat'.cnt[o].RequestCount >= stat.cnt[o].RequestCount
         /\ stat'.cnt[o].ErrorCount >= stat.cnt[o].ErrorCount]_vars

\* two failed requests on one slave: one has been recorded whole, the other
\* has counted the request and not yet the error, while Stats is running
C37_Witness ==
    \E o \in StatObjs, h \in Handlers :
        /\ stat.cnt[o].RequestCount = 2 /\ stat.cnt[o].ErrorCount = 1
        /\ stat.rec[h].obj = o /\ stat.rec[h].hasError
        /\ stat.rec[h].pc \in {"in", "out", "err"}
        /\ stat.rd.pc = "loop"

\* C38: the totals returned by successive Engine.Stats calls
\* (TotalRequests, TotalErrors, BytesReceived, BytesSent) never decrease,
\* across any sequence of requests, Engine.Start and Engine.Stop.
C38_TotalsMonotone ==
    stat.nstats >= 2
    => /\ stat.last.TotalRequests >= stat.prev.TotalRequests
       /\ stat.last.TotalErrors >= stat.prev.TotalErrors
       /\ stat.last.BytesReceived >= stat.prev.BytesReceived
       /\ stat.last.BytesSent >= stat.prev.BytesSent

\* C39: scenario state is per slave: a step of one slave's tick changes
\* neither the accumulator (energy, lastUpdate) that the ticks of another
\* slave of the process write their TotalEnergy from, nor the sag start
\* time those ticks test.
C39_PerSlaveState ==
    [][\A s \in ShareSlaves, t \in ShareSlaves :
         (s # t /\ tick'[s] # tick[s])
         => /\ NormalOf(scenarioHandlers', scenario[t])
               = NormalOf(scenarioHandlers, scenario[t])
            /\ scenarioHandlers'.voltage_sag.startTime
               = scenarioHandlers.voltage_sag.startTime]_vars

\* C40: whenever jitter is in effect, jitter_min < jitter_max holds for the
\* published range, for every ScenarioParams given to JitterScenario.Update,
\* so the injected delay d satisfies jitter_min <= d < jitter_max and
\* applying the jitter never fails.
C40_JitterRangeOrdered ==
    /\ jit.jitterEnabled => jit.jitterMin < jit.jitterMax
    /\ jit.applied => (jit.jitterMin <= jit.delay /\ jit.delay < jit.jitterMax)
    /\ ~jit.panicked

====
